---- MODULE Spec2Model ----
(***************************************************************************)
(* Intraday signal store and backtest simulator of signalx-backend         *)
(* (services/intradayBacktestService: src/unnamed/part_003).               *)
(*                                                                         *)
(* Units.  Prices are integers in paise: the entry calculators round every *)
(* price of a pick to two decimals before it is stored.  Unrounded money   *)
(* amounts are integers in 1/10000 paise ("fine" units), so that           *)
(* entryPrice * quantity * costBps / 10000 is exact; round2 takes a fine   *)
(* amount to paise the way Math.round(value * 100) / 100 does.             *)
(***************************************************************************)
EXTENDS Integers, Sequences, FiniteSets, TLC

VARIABLES
    \* ---- backtestSinglePick: one pick replayed against the day's candles
    pick,               \* the sanitized pick being simulated
    capitalPerPick,     \* [num, den]: capital allocated to the pick, num/den paise
    signalStartMinute,  \* parseISTTimeToMinutes(snapshot.istTime), NULL when invalid
    dayCandles,         \* what fetchBestGranularityCandles returned for the symbol
    tradableCandles,    \* dayCandles at or after the start minute
    quantity,           \* local `quantity`
    entryIdx,           \* index in tradableCandles of entryCandle, 0 while none
    scanIdx,            \* loop index of the running scan
    examined,           \* indexes passed to pickEntryExitForCandle so far
    pc,                 \* position inside backtestSinglePick
    trade,              \* the returned trade record, NoTrade while running
    \* ---- the stores and the clock
    mongoConnected,     \* isMongoConnected()
    fileSnapshots,      \* history.snapshots of intradaySignalHistory.json
    mongoSnapshots,     \* documents of the intraday_signal_snapshots collection
    clock,              \* Date.now(), one tick per call
    \* ---- saveIntradaySignalSnapshot: the last call and what was offered so far
    lastSave,           \* [offered, returned, before]: the last call, NoSave at first
    offeredLog,         \* every snapshot a call built, by call
    savers,             \* two calls in progress against the file: position, snapshot, history read
    \* ---- runIntradayBacktest
    market,             \* symbol -> the day's candles the data source answers with
    marketChanges,      \* how often the data source's answer changed
    fileRuns,           \* history.runs of intradayBacktestHistory.json
    mongoRuns,          \* documents of the intraday_backtest_runs collection
    runPc,              \* position inside runIntradayBacktest
    runArgs,            \* [tradeDate, capital, allocationMode] of the running call
    runSnapshot,        \* the snapshot the call selected
    runPicks,           \* sanitizePicks(snapshot.picks)
    pickCursor,         \* index of the pick being simulated
    trades,             \* trades pushed so far
    runCount,           \* calls made
    lastRun,            \* what the last call returned (or threw), NoRun at first
    prevRun,            \* what the call before it returned
    fetchFailed,        \* indexes of the picks of the running call whose simulation threw
    \* ---- calls of the pure functions (entry plans, thresholds, evaluators, RSI)
    input,              \* the arguments of the call, NoInput before it
    output,             \* what the call returned, NoOutput before it returns
    \* ---- the scan workflows of the intraday and swing routes
    scanKind,           \* which workflow runs: background or direct, intraday or swing
    scanStatus,         \* idle, running or done (the cache's status of a background scan)
    scanItems,          \* the symbols to scan
    batchStart,         \* mapWithConcurrency's i, from 1
    slots,              \* per symbol: waiting, fetching, done or failed
    scanResults,        \* the results array
    scanCount,          \* scans started
    intradayCache,      \* the results and the error flag of the intraday cache
    scansInFlight       \* calls of startIntradayBackgroundScan that have not ended

btVars == <<pick, capitalPerPick, signalStartMinute, dayCandles, tradableCandles,
            quantity, entryIdx, scanIdx, examined, pc, trade>>

storeVars == <<mongoConnected, fileSnapshots, mongoSnapshots, clock>>

saveVars == <<lastSave, offeredLog, savers>>

runVars == <<market, marketChanges, fileRuns, mongoRuns, runPc, runArgs, runSnapshot,
             runPicks, pickCursor, trades, runCount, lastRun, prevRun, fetchFailed>>

fnVars == <<input, output>>

cacheVars == <<intradayCache, scansInFlight>>

scanVars == <<scanKind, scanStatus, scanItems, batchStart, slots, scanResults, scanCount,
              cacheVars>>

vars == <<btVars, storeVars, saveVars, runVars, fnVars, scanVars>>

(***************************************************************************)
(* Bounds of the model                                                     *)
(***************************************************************************)
MaxCandles == 3
MaxSaves == 3
MaxRuns == 2
MaxMarketChanges == 1
MaxFetchFailures == 1

(***************************************************************************)
(* Program constants                                                       *)
(***************************************************************************)
NULL == 0 - 1
SESSION_OPEN_MIN == 9 * 60 + 15
SESSION_CLOSE_MIN == 15 * 60 + 30
DEFAULT_INTRADAY_ROUND_TRIP_COST_BPS == 18
FINE == 10000
\* Math.max(100, ... || 500) in the program; scaled down to 2 dates so that a full
\* history is within reach of MaxSaves calls.
SIGNAL_HISTORY_LIMIT == 2
\* Math.max(100, ... || 1000) in the program, scaled down likewise.
BACKTEST_HISTORY_LIMIT == 2

\* Math.round(value * 100) / 100 on a fine amount: nearest paise, halves up.
round2(fine) == (fine + (FINE \div 2)) \div FINE

\* value ?? fallback
Coalesce(value, fallback) == IF value = NULL THEN fallback ELSE value

Max(a, b) == IF a >= b THEN a ELSE b
Min(a, b) == IF a <= b THEN a ELSE b

(***************************************************************************)
(* pickEntryExitForCandle                                                  *)
(***************************************************************************)
NoExit == [exitType |-> "none", exitPrice |-> NULL, reason |-> "none"]

\* Mutant: an exit only on a candle whose range contains the level.
pickEntryExitForCandle_RangeOnly(low, high, stopLoss, target1, target2) ==
    IF low <= stopLoss /\ stopLoss <= high
      THEN [exitType |-> "stop_loss", exitPrice |-> stopLoss, reason |-> "stop_loss_hit"]
    ELSE IF low <= target2 /\ target2 <= high
      THEN [exitType |-> "target2_hit", exitPrice |-> target2, reason |-> "target2_hit"]
    ELSE IF low <= target1 /\ target1 <= high
      THEN [exitType |-> "target1_hit", exitPrice |-> target1, reason |-> "target1_hit"]
    ELSE NoExit

\* Mutant: the targets are tested before the stop-loss.
pickEntryExitForCandle_TargetFirst(low, high, stopLoss, target1, target2) ==
    IF high >= target2
      THEN [exitType |-> "target2_hit", exitPrice |-> target2, reason |-> "target2_hit"]
    ELSE IF high >= target1
      THEN [exitType |-> "target1_hit", exitPrice |-> target1, reason |-> "target1_hit"]
    ELSE IF low <= stopLoss
      THEN [exitType |-> "stop_loss", exitPrice |-> stopLoss, reason |-> "stop_loss_hit"]
    ELSE NoExit

pickEntryExitForCandle(low, high, stopLoss, target1, target2) ==
    LET hitSL == low <= stopLoss
        hitT1 == high >= target1
        hitT2 == high >= target2
    IN  IF hitSL /\ (hitT1 \/ hitT2)
          THEN [exitType |-> "stop_loss", exitPrice |-> stopLoss,
                reason |-> "sl_and_target_same_candle_stop_priority"]
        ELSE IF hitSL
          THEN [exitType |-> "stop_loss", exitPrice |-> stopLoss,
                reason |-> "stop_loss_hit"]
        ELSE IF hitT2
          THEN [exitType |-> "target2_hit", exitPrice |-> target2,
                reason |-> "target2_hit"]
        ELSE IF hitT1
          THEN [exitType |-> "target1_hit", exitPrice |-> target1,
                reason |-> "target1_hit"]
        ELSE NoExit

(***************************************************************************)
(* backtestSinglePick                                                      *)
(***************************************************************************)
NoTrade == [status |-> "running"]
NoSnapshot == [id |-> NULL]
NoSave == [offered |-> NoSnapshot, returned |-> NoSnapshot, before |-> <<>>,
           storage |-> "none"]
NoSaver == [pc |-> "idle", snapshot |-> NoSnapshot, history |-> <<>>,
            returned |-> NoSnapshot, stale |-> FALSE]
NoRun == [ok |-> FALSE, error |-> <<>>]
NoArgs == [tradeDate |-> "", capital |-> 0, allocationMode |-> "per_pick"]
NoInput == [fn |-> "none"]
NoOutput == [returned |-> FALSE]

\* No pure function called.
FnIdle ==
    /\ input = NoInput
    /\ output = NoOutput

\* No scan started.
ScanIdle ==
    /\ scanKind = "none"
    /\ scanStatus = "idle"
    /\ scanItems = <<>>
    /\ batchStart = 1
    /\ slots = <<>>
    /\ scanResults = <<>>
    /\ scanCount = 0
    /\ intradayCache = [results |-> <<>>, error |-> FALSE]
    /\ scansInFlight = 0

Symbols == {"A", "B", "C"}

\* No call of runIntradayBacktest made yet, nothing stored.
RunsIdle ==
    /\ marketChanges = 0
    /\ fileRuns = <<>>
    /\ mongoRuns = <<>>
    /\ runPc = "idle"
    /\ runArgs = NoArgs
    /\ runSnapshot = NoSnapshot
    /\ runPicks = <<>>
    /\ pickCursor = 0
    /\ trades = <<>>
    /\ runCount = 0
    /\ lastRun = NoRun
    /\ prevRun = NoRun
    /\ fetchFailed = {}

\* round2(capitalPerPick), in paise
capitalConfigured(cap) == (2 * cap.num + cap.den) \div (2 * cap.den)

\* The zero-quantity result shared by every no-trade return.
noTradeResult(p, cap, status, reason) ==
    [symbol |-> p.symbol, entryPrice |-> p.entryPrice, stopLoss |-> p.stopLoss,
     target1 |-> p.target1, target2 |-> p.target2,
     capitalConfigured |-> capitalConfigured(cap),
     status |-> status, outcome |-> "no_trade", reason |-> reason,
     quantity |-> 0, investedAmount |-> 0, grossPnl |-> 0, netPnl |-> 0,
     roundTripCost |-> 0, exitType |-> "none", exitPrice |-> NULL,
     entryTriggeredAt |-> NULL, exitTriggeredAt |-> NULL]

\* Math.max(signalStartMinute ?? SESSION_OPEN_MIN, SESSION_OPEN_MIN)
startMinuteOf(signalMinute) ==
    Max(Coalesce(signalMinute, SESSION_OPEN_MIN), SESSION_OPEN_MIN)

\* Mutant: the signal time is ignored, every candle of the day is tradable.
filterTradable_WholeDay(candles, startMinute) == candles

\* dayCandles.filter(c => c.minutes >= startMinute)
filterTradable(candles, startMinute) ==
    SelectSeq(candles, LAMBDA c : c.minutes >= startMinute)

\* Mutant: Math.ceil instead of Math.floor.
quantityFor_Ceil(cap, entryPrice) ==
    (cap.num + cap.den * entryPrice - 1) \div (cap.den * entryPrice)

\* Math.floor(capitalPerPick / pick.entryPrice)
quantityFor(cap, entryPrice) == cap.num \div (cap.den * entryPrice)

\* candle.low <= pick.entryPrice && candle.high >= pick.entryPrice
entryTriggers(candle, p) == candle.low <= p.entryPrice /\ candle.high >= p.entryPrice

\* tradableCandles.findIndex(c => c.timestamp === entryCandle.timestamp)
findIndexByTimestamp(candles, ts) ==
    LET hits == {k \in 1..Len(candles) : candles[k].timestamp = ts}
    IN  CHOOSE k \in hits : \A j \in hits : k <= j

\* Mutant: the cost of one share, whatever the quantity.
roundTripCostFine_PerShare(p, qty, costBps) == p.entryPrice * costBps

\* pick.entryPrice * quantity * (costBps / 10000), in fine units
roundTripCostFine(p, qty, costBps) == p.entryPrice * qty * costBps

\* (exit.exitPrice - pick.entryPrice) * quantity, in fine units
grossPnlFine(p, qty, exitPrice) == (exitPrice - p.entryPrice) * qty * FINE

\* The closed-trade return value.
closedResult(p, cap, qty, costBps, entryCandle, exitCandle, exit) ==
    LET cost  == roundTripCostFine(p, qty, costBps)
        gross == grossPnlFine(p, qty, exit.exitPrice)
        net   == gross - cost
    IN [symbol |-> p.symbol, entryPrice |-> p.entryPrice, stopLoss |-> p.stopLoss,
        target1 |-> p.target1, target2 |-> p.target2,
        capitalConfigured |-> capitalConfigured(cap),
        status |-> "closed",
        outcome |-> IF exit.exitType = "stop_loss" THEN "loss" ELSE "win",
        reason |-> exit.reason,
        quantity |-> qty,
        investedAmount |-> round2(p.entryPrice * qty * FINE),
        grossPnl |-> round2(gross), netPnl |-> round2(net),
        roundTripCost |-> round2(cost),
        exitType |-> exit.exitType,
        exitPrice |-> round2(exit.exitPrice * FINE),
        entryTriggeredAt |-> entryCandle.minutes,
        exitTriggeredAt |-> exitCandle.minutes]

\* Mutant: the position is marked to market on the last candle.
noExitLevelResult_MarkToMarket(p, cap, qty, costBps, entryCandle, lastCandle) ==
    closedResult(p, cap, qty, costBps, entryCandle, lastCandle,
                 [exitType |-> "session_close", exitPrice |-> lastCandle.high,
                  reason |-> "session_close"])

\* Lines 428-443: entry triggered, no exit level reached by the last candle.
noExitLevelResult(p, cap, qty, costBps, entryCandle, lastCandle) ==
    [noTradeResult(p, cap, "no_trade", "no_exit_level_hit_by_close")
        EXCEPT !.entryTriggeredAt = entryCandle.minutes]

\* Lines 322-381: fetch, the three early returns, position sizing.
BeginPick ==
    /\ pc = "fetch"
    /\ LET startMinute == startMinuteOf(signalStartMinute)
           tradable    == filterTradable(dayCandles, startMinute)
           qty         == quantityFor(capitalPerPick, pick.entryPrice)
       IN  IF Len(dayCandles) = 0
             THEN /\ trade' = noTradeResult(pick, capitalPerPick, "no_data",
                                            "no_intraday_candles_for_date")
                  /\ pc' = "done"
                  /\ UNCHANGED <<tradableCandles, quantity, scanIdx>>
           ELSE IF Len(tradable) = 0
             THEN /\ trade' = noTradeResult(pick, capitalPerPick, "no_trade",
                                            "no_candles_after_signal_time")
                  /\ pc' = "done"
                  /\ tradableCandles' = tradable
                  /\ UNCHANGED <<quantity, scanIdx>>
           ELSE IF qty < 1
             THEN /\ trade' = noTradeResult(pick, capitalPerPick, "no_trade",
                                            "capital_too_low_for_one_share")
                  /\ pc' = "done"
                  /\ tradableCandles' = tradable
                  /\ quantity' = qty
                  /\ UNCHANGED scanIdx
           ELSE /\ tradableCandles' = tradable
                /\ quantity' = qty
                /\ scanIdx' = 1
                /\ pc' = "awaiting_entry"
                /\ UNCHANGED trade
    /\ UNCHANGED <<pick, capitalPerPick, signalStartMinute, dayCandles, entryIdx, examined>>
    /\ UNCHANGED <<fnVars, scanVars, storeVars, saveVars, runVars>>

\* Lines 383-404: one iteration of the entry loop, or its end.
ScanEntry ==
    /\ pc = "awaiting_entry"
    /\ IF scanIdx > Len(tradableCandles)
         THEN /\ trade' = noTradeResult(pick, capitalPerPick, "no_trade",
                                        "entry_not_triggered")
              /\ pc' = "done"
              /\ UNCHANGED <<entryIdx, scanIdx>>
       ELSE IF entryTriggers(tradableCandles[scanIdx], pick)
         THEN /\ entryIdx' = scanIdx
              /\ scanIdx' = findIndexByTimestamp(tradableCandles,
                                                 tradableCandles[scanIdx].timestamp)
              /\ pc' = "position_open"
              /\ UNCHANGED trade
       ELSE /\ scanIdx' = scanIdx + 1
            /\ UNCHANGED <<entryIdx, pc, trade>>
    /\ UNCHANGED <<pick, capitalPerPick, signalStartMinute, dayCandles, tradableCandles,
                   quantity, examined>>
    /\ UNCHANGED <<fnVars, scanVars, storeVars, saveVars, runVars>>

\* Lines 406-465: one iteration of the exit loop, or its end.
ScanExit ==
    /\ pc = "position_open"
    /\ IF scanIdx > Len(tradableCandles)
         THEN /\ trade' = noExitLevelResult(pick, capitalPerPick, quantity,
                                             DEFAULT_INTRADAY_ROUND_TRIP_COST_BPS,
                                             tradableCandles[entryIdx],
                                             tradableCandles[Len(tradableCandles)])
              /\ pc' = "done"
              /\ UNCHANGED <<scanIdx, examined>>
       ELSE LET candle == tradableCandles[scanIdx]
                exit   == pickEntryExitForCandle(candle.low, candle.high, pick.stopLoss,
                                                 pick.target1, pick.target2)
            IN  /\ examined' = examined \cup {scanIdx}
                /\ IF exit # NoExit
                     THEN /\ trade' = closedResult(pick, capitalPerPick, quantity,
                                                   DEFAULT_INTRADAY_ROUND_TRIP_COST_BPS,
                                                   tradableCandles[entryIdx], candle, exit)
                          /\ pc' = "done"
                          /\ UNCHANGED scanIdx
                     ELSE /\ scanIdx' = scanIdx + 1
                          /\ UNCHANGED <<pc, trade>>
    /\ UNCHANGED <<pick, capitalPerPick, signalStartMinute, dayCandles, tradableCandles,
                   quantity, entryIdx>>
    /\ UNCHANGED <<fnVars, scanVars, storeVars, saveVars, runVars>>

(***************************************************************************)
(* Picks and sanitizePicks                                                 *)
(***************************************************************************)
\* Risk-reward figures are integers in hundredths.
PickA == [symbol |-> "A", entryPrice |-> 2500, stopLoss |-> 2400,
          target1 |-> 2600, target2 |-> 2700,
          riskRewardAfterCosts |-> 150, riskReward |-> 160]
PickB == [symbol |-> "B", entryPrice |-> 200000, stopLoss |-> 190000,
          target1 |-> 210000, target2 |-> 220000,
          riskRewardAfterCosts |-> NULL, riskReward |-> 200]
PickC == [symbol |-> "C", entryPrice |-> 4000, stopLoss |-> 3900,
          target1 |-> 4100, target2 |-> 4200,
          riskRewardAfterCosts |-> 150, riskReward |-> 155]
\* A scan result sanitizePicks drops: target1 is not above the entry price.
PickX == [symbol |-> "X", entryPrice |-> 3000, stopLoss |-> 2900,
          target1 |-> 3000, target2 |-> 3100,
          riskRewardAfterCosts |-> 600, riskReward |-> 600]

validPick(p) ==
    /\ p.entryPrice # NULL /\ p.stopLoss # NULL /\ p.target1 # NULL /\ p.target2 # NULL
    /\ p.entryPrice > 0
    /\ p.stopLoss > 0
    /\ p.target1 > p.entryPrice
    /\ p.target2 > p.target1
    /\ p.stopLoss < p.entryPrice

sanitizePicks(picks) == SelectSeq(picks, validPick)

(***************************************************************************)
(* Snapshot quality and the best snapshot of a date                        *)
(***************************************************************************)
RECURSIVE rrSumOf(_)
rrSumOf(picks) ==
    IF picks = <<>> THEN 0
    ELSE LET p  == Head(picks)
             rr == Coalesce(p.riskRewardAfterCosts, Coalesce(p.riskReward, 0))
         IN  Max(0, Min(500, rr)) + rrSumOf(Tail(picks))

\* round2(rrSum / n + Math.min(n, 20) * 0.1), in hundredths
snapshotQualityFromPicks(picks) ==
    IF Len(picks) = 0 THEN 0
    ELSE LET n == Len(picks)
         IN  (2 * (rrSumOf(picks) + n * Min(n, 20) * 10) + n) \div (2 * n)

snapshotQuality(snapshot) ==
    Coalesce(snapshot.qualityScore, snapshotQualityFromPicks(snapshot.picks))

\* The comparator of pickBestSnapshotForDate: a sorts before b.
sortsBefore(a, b) ==
    \/ snapshotQuality(a) > snapshotQuality(b)
    \/ snapshotQuality(a) = snapshotQuality(b) /\ a.createdAt > b.createdAt

\* snapshots.slice().sort(...)[0] || null, the sort being stable
pickBestSnapshotForDate(snapshots) ==
    IF Len(snapshots) = 0 THEN NoSnapshot
    ELSE LET best == CHOOSE k \in 1..Len(snapshots) :
                       /\ \A j \in 1..Len(snapshots) : ~sortsBefore(snapshots[j], snapshots[k])
                       /\ \A j \in 1..(k - 1) : sortsBefore(snapshots[j], snapshots[k])
                                                  \/ sortsBefore(snapshots[k], snapshots[j])
         IN  snapshots[best]

\* A stable sort by createdAt, newest first.
RECURSIVE insertByCreatedAtDesc(_, _)
insertByCreatedAtDesc(sorted, s) ==
    IF sorted = <<>> THEN <<s>>
    ELSE IF s.createdAt > Head(sorted).createdAt THEN <<s>> \o sorted
    ELSE <<Head(sorted)>> \o insertByCreatedAtDesc(Tail(sorted), s)

RECURSIVE sortByCreatedAtDesc(_)
sortByCreatedAtDesc(snapshots) ==
    IF snapshots = <<>> THEN <<>>
    ELSE insertByCreatedAtDesc(
           sortByCreatedAtDesc(SubSeq(snapshots, 1, Len(snapshots) - 1)),
           snapshots[Len(snapshots)])

\* The Map of collapseToBestByDate, as a sequence in insertion order of the dates.
RECURSIVE bestByDate(_)
bestByDate(snapshots) ==
    IF snapshots = <<>> THEN <<>>
    ELSE LET front == bestByDate(SubSeq(snapshots, 1, Len(snapshots) - 1))
             s     == snapshots[Len(snapshots)]
             at    == {k \in 1..Len(front) : front[k].istDate = s.istDate}
         IN  IF at = {} THEN Append(front, s)
             ELSE LET k == CHOOSE k \in at : TRUE
                  IN  [front EXCEPT ![k] = pickBestSnapshotForDate(<<front[k], s>>)]

collapseToBestByDate(snapshots) == sortByCreatedAtDesc(bestByDate(snapshots))

sameDate(snapshots, date) == SelectSeq(snapshots, LAMBDA s : s.istDate = date)
otherDates(snapshots, date) == SelectSeq(snapshots, LAMBDA s : s.istDate # date)

\* array.slice(-limit)
lastN(seq, limit) ==
    IF Len(seq) > limit THEN SubSeq(seq, Len(seq) - limit + 1, Len(seq)) ELSE seq

(***************************************************************************)
(* saveIntradaySignalSnapshot                                              *)
(***************************************************************************)
\* Mutant: the accepted snapshot is pushed without removing the date's old record.
persistSignalSnapshotFile_KeepOld(history, snapshot) ==
    LET bestExisting == pickBestSnapshotForDate(sameDate(history, snapshot.istDate))
    IN  IF bestExisting # NoSnapshot
           /\ snapshotQuality(bestExisting) >= snapshotQuality(snapshot)
          THEN [snapshots |-> history, returned |-> bestExisting]
        ELSE [snapshots |-> lastN(Append(history, snapshot), SIGNAL_HISTORY_LIMIT),
              returned |-> snapshot]

\* persistSignalSnapshotFile: [snapshots |-> the file afterwards, returned |-> ...]
persistSignalSnapshotFile(history, snapshot) ==
    LET bestExisting == pickBestSnapshotForDate(sameDate(history, snapshot.istDate))
    IN  IF bestExisting # NoSnapshot
           /\ snapshotQuality(bestExisting) >= snapshotQuality(snapshot)
          THEN [snapshots |-> history, returned |-> bestExisting]
        ELSE [snapshots |->
                lastN(collapseToBestByDate(
                        Append(otherDates(history, snapshot.istDate), snapshot)),
                      SIGNAL_HISTORY_LIMIT),
              returned |-> snapshot]

\* Lines 769-784, the collection answering every call.
persistSignalSnapshotMongo(docs, snapshot) ==
    LET existingBest == pickBestSnapshotForDate(sameDate(docs, snapshot.istDate))
    IN  IF existingBest # NoSnapshot
           /\ snapshotQuality(existingBest) >= snapshotQuality(snapshot)
          THEN [snapshots |-> docs, returned |-> existingBest]
        ELSE [snapshots |-> Append(otherDates(docs, snapshot.istDate), snapshot),
              returned |-> snapshot]

\* Lines 751-767: the snapshot a call builds.
buildSnapshot(positiveStocks, istDate, istTime, now) ==
    LET picks == sanitizePicks(positiveStocks)
    IN  [id |-> now, createdAt |-> now, istDate |-> istDate, istTime |-> istTime,
         qualityScore |-> snapshotQualityFromPicks(picks), picks |-> picks]

\* saveIntradaySignalSnapshot: the snapshot is built and offered to the store.
SnapshotSaved(positiveStocks, istDate, istTime) ==
    /\ clock' = clock + 1
    /\ LET snapshot == buildSnapshot(positiveStocks, istDate, istTime, clock + 1)
           outcome  == IF mongoConnected
                         THEN persistSignalSnapshotMongo(mongoSnapshots, snapshot)
                         ELSE persistSignalSnapshotFile(fileSnapshots, snapshot)
       IN  /\ IF mongoConnected
                THEN mongoSnapshots' = outcome.snapshots /\ UNCHANGED fileSnapshots
                ELSE fileSnapshots' = outcome.snapshots /\ UNCHANGED mongoSnapshots
           /\ lastSave' = [offered |-> snapshot, returned |-> outcome.returned,
                           before |-> IF mongoConnected THEN mongoSnapshots
                                      ELSE fileSnapshots,
                           storage |-> IF mongoConnected THEN "mongo" ELSE "file"]
           /\ offeredLog' = Append(offeredLog, snapshot)
           /\ UNCHANGED savers

SaveSnapshot(positiveStocks, istDate, istTime) ==
    /\ clock < MaxSaves
    /\ SnapshotSaved(positiveStocks, istDate, istTime)
    /\ UNCHANGED <<fnVars, scanVars, mongoConnected, btVars, runVars>>

(***************************************************************************)
(* Inputs of the snapshot store                                            *)
(***************************************************************************)
IstDates == {"2026-01-05", "2026-01-06", "2026-01-07"}

StockLists == {<<PickX>>, <<PickA>>, <<PickC>>, <<PickA, PickB>>,
               <<PickA, PickX, PickB, PickC>>}

StoresEmpty ==
    /\ fileSnapshots = <<>>
    /\ mongoSnapshots = <<>>
    /\ clock = 0
    /\ lastSave = NoSave
    /\ offeredLog = <<>>
    /\ savers = <<NoSaver, NoSaver>>

PickIdle ==
    /\ pick = PickA
    /\ capitalPerPick = [num |-> 0, den |-> 1]
    /\ signalStartMinute = NULL
    /\ dayCandles = <<>>
    /\ tradableCandles = <<>>
    /\ quantity = 0
    /\ entryIdx = 0
    /\ scanIdx = 0
    /\ examined = {}
    /\ pc = "idle"
    /\ trade = NoTrade

InitSnap ==
    /\ StoresEmpty
    /\ mongoConnected \in BOOLEAN
    /\ PickIdle
    /\ RunsIdle
    /\ FnIdle
    /\ ScanIdle
    /\ market = [sym \in Symbols |-> <<>>]

NextSnap ==
    \E stocks \in StockLists, date \in IstDates :
        SaveSnapshot(stocks, date, SESSION_OPEN_MIN + 5)

SpecSnap == InitSnap /\ [][NextSnap]_vars

(***************************************************************************)
(* Two calls of saveIntradaySignalSnapshot against the file (SpecRace)     *)
(* part_003 lines 121-133, 564-569, 633-649, 744-791                       *)
(***************************************************************************)
Savers == {1, 2}

\* The call of saver i up to `await readSignalHistory()`: Mongo is not
\* connected, the snapshot is built and the read of the file is under way.
BeginSave(i, positiveStocks, istDate) ==
    /\ ~mongoConnected
    /\ savers[i].pc = "idle"
    /\ clock' = clock + 1
    /\ savers' = [savers EXCEPT ![i] =
                    [NoSaver EXCEPT !.pc = "reading",
                                    !.snapshot = buildSnapshot(positiveStocks, istDate,
                                                               SESSION_OPEN_MIN + 5,
                                                               clock + 1)]]
    /\ offeredLog' = Append(offeredLog, savers'[i].snapshot)
    /\ UNCHANGED <<btVars, runVars, fnVars, scanVars, mongoConnected, fileSnapshots,
                   mongoSnapshots, lastSave>>

\* readJson resolves: saver i holds the file's content of this moment.
ReadHistory(i) ==
    /\ savers[i].pc = "reading"
    /\ savers' = [savers EXCEPT ![i].pc = "read", ![i].history = fileSnapshots]
    /\ UNCHANGED <<btVars, runVars, fnVars, scanVars, storeVars, lastSave, offeredLog>>

\* persistSignalSnapshotFile of saver i after its read: the stored snapshot of
\* the date is returned, or the history it read, with its snapshot, replaces
\* the file.  `stale` keeps whether the file had changed since the read.
WriteHistory(i) ==
    /\ savers[i].pc = "read"
    /\ LET outcome == persistSignalSnapshotFile(savers[i].history, savers[i].snapshot)
       IN  /\ fileSnapshots' = IF outcome.returned = savers[i].snapshot
                                 THEN outcome.snapshots ELSE fileSnapshots
           /\ savers' = [savers EXCEPT ![i].pc = "done",
                                       ![i].returned = outcome.returned,
                                       ![i].stale = (savers[i].history # fileSnapshots)]
    /\ UNCHANGED <<btVars, runVars, fnVars, scanVars, mongoConnected, mongoSnapshots,
                   clock, lastSave, offeredLog>>

\* The file at first: empty, or one snapshot of an earlier call
EarlierFile ==
    {<<>>, <<buildSnapshot(<<PickA>>, "2026-01-05", SESSION_OPEN_MIN + 5, 1)>>}

RaceDates == {"2026-01-05", "2026-01-06"}

InitRace ==
    /\ fileSnapshots \in EarlierFile
    /\ mongoSnapshots = <<>>
    /\ clock = 1
    /\ lastSave = NoSave
    /\ offeredLog = <<>>
    /\ savers = <<NoSaver, NoSaver>>
    /\ mongoConnected = FALSE
    /\ PickIdle
    /\ RunsIdle
    /\ FnIdle
    /\ ScanIdle
    /\ market = [sym \in Symbols |-> <<>>]

NextRace ==
    \/ \E i \in Savers, stocks \in StockLists, date \in RaceDates :
           BeginSave(i, stocks, date)
    \/ \E i \in Savers : ReadHistory(i)
    \/ \E i \in Savers : WriteHistory(i)

SpecRace == InitRace /\ [][NextRace]_vars

(***************************************************************************)
(* Inputs of the single-pick replay                                        *)
(***************************************************************************)
\* Price levels a candle's low and high are drawn from, around the pick's levels.
Levels(p) == {p.stopLoss - 50, p.stopLoss, p.entryPrice, p.target1, p.target2}

\* The k-th candle of the day, at 5-minute spacing from the session open.
CandleAt(k, low, high) ==
    [timestamp |-> k, minutes |-> SESSION_OPEN_MIN + 5 * (k - 1), low |-> low, high |-> high]

Ranges(p) == {r \in Levels(p) \X Levels(p) : r[1] <= r[2]}

\* A normalized day of n candles: sorted by minute, in session.
DayOf(n, f) == [k \in 1..n |-> CandleAt(k, f[k][1], f[k][2])]

SignalMinutes == {NULL, SESSION_OPEN_MIN - 15, SESSION_OPEN_MIN + 5}

PickCapitals == {[num |-> 2000, den |-> 1], [num |-> 2500, den |-> 1],
                 [num |-> 100000, den |-> 3]}

InitPick ==
    /\ pick = PickA
    /\ capitalPerPick \in PickCapitals
    /\ signalStartMinute \in SignalMinutes
    /\ \E n \in 0..MaxCandles : \E f \in [1..n -> Ranges(PickA)] :
          dayCandles = DayOf(n, f)
    /\ tradableCandles = <<>>
    /\ quantity = 0
    /\ entryIdx = 0
    /\ scanIdx = 0
    /\ examined = {}
    /\ pc = "fetch"
    /\ trade = NoTrade
    /\ StoresEmpty
    /\ mongoConnected = FALSE
    /\ RunsIdle
    /\ FnIdle
    /\ ScanIdle
    /\ market = [sym \in Symbols |-> <<>>]

NextPick == BeginPick \/ ScanEntry \/ ScanExit

SpecPick == InitPick /\ [][NextPick]_vars

(***************************************************************************)
(* listIntradaySignalSnapshots({date})                                     *)
(***************************************************************************)
firstN(seq, n) == IF Len(seq) > n THEN SubSeq(seq, 1, n) ELSE seq

\* With a date: collapsed.slice(0, 1).  Mongo answers sorted by createdAt,
\* newest first.
listIntradaySignalSnapshots(date) ==
    IF mongoConnected
      THEN firstN(collapseToBestByDate(sortByCreatedAtDesc(sameDate(mongoSnapshots, date))), 1)
      ELSE firstN(collapseToBestByDate(sameDate(fileSnapshots, date)), 1)

(***************************************************************************)
(* buildSummary and the stored runs                                        *)
(***************************************************************************)
count(seq, Test(_)) == Len(SelectSeq(seq, Test))

RECURSIVE sumOf(_, _)
sumOf(seq, field) ==
    IF seq = <<>> THEN 0 ELSE Head(seq)[field] + sumOf(Tail(seq), field)

\* The counts and sums of buildSummary; winRate in hundredths of a percent.  The
\* per-entry-type and per-loss-reason breakdowns and the ROI ratios, functions of
\* the same trades, are left out.
buildSummary(ts, capital, allocationMode, costBps) ==
    LET wins     == count(ts, LAMBDA t : t.outcome = "win")
        losses   == count(ts, LAMBDA t : t.outcome = "loss")
        executed == SelectSeq(ts, LAMBDA t : t.status = "closed")
    IN  [totalSignals |-> Len(ts),
         tradesClosed |-> Len(executed),
         wins |-> wins,
         losses |-> losses,
         noTrade |-> count(ts, LAMBDA t : t.outcome = "no_trade"),
         target1Hits |-> count(ts, LAMBDA t : t.exitType = "target1_hit"),
         target2Hits |-> count(ts, LAMBDA t : t.exitType = "target2_hit"),
         stopLossHits |-> count(ts, LAMBDA t : t.exitType = "stop_loss"),
         decisiveTrades |-> wins + losses,
         winRate |-> IF wins + losses > 0
                       THEN (2 * wins * 10000 + (wins + losses)) \div (2 * (wins + losses))
                       ELSE 0,
         grossPnl |-> sumOf(executed, "grossPnl"),
         netPnl |-> sumOf(executed, "netPnl"),
         deployedCapital |-> sumOf(executed, "investedAmount"),
         configuredExposure |-> IF allocationMode = "split_across_picks" THEN capital
                                ELSE capital * Len(ts),
         roundTripCostBps |-> costBps]

\* Mutant: the run's id is part of what is compared.
comparableRunPayload_WithId(run) ==
    [id |-> run.id, tradeDate |-> run.tradeDate, capital |-> run.capital,
     allocationMode |-> run.allocationMode, snapshotId |-> run.snapshotId,
     summary |-> run.summary, trades |-> run.trades]

comparableRunPayload(run) ==
    [tradeDate |-> run.tradeDate, capital |-> run.capital,
     allocationMode |-> run.allocationMode, snapshotId |-> run.snapshotId,
     summary |-> run.summary, trades |-> run.trades]

isSameBacktestOutcome(a, b) == comparableRunPayload(a) = comparableRunPayload(b)

\* backtestDedupFilter / the filter of latestComparableRunFile
sameRunKey(r, run) ==
    /\ r.tradeDate = run.tradeDate
    /\ r.capital = run.capital
    /\ r.allocationMode = run.allocationMode
    /\ r.snapshotId = run.snapshotId

\* The newest stored run of the key, NoRun when there is none.
latestComparableRun(runs, run) ==
    LET same == SelectSeq(runs, LAMBDA r : sameRunKey(r, run))
    IN  IF same = <<>> THEN NoRun
        ELSE LET k == CHOOSE k \in 1..Len(same) :
                        /\ \A j \in 1..Len(same) : same[j].createdAt <= same[k].createdAt
                        /\ \A j \in 1..(k - 1) : same[j].createdAt < same[k].createdAt
             IN  same[k]

\* persistBacktestRunWithDedup: [runs, saved, existingRunId, storage]
persistBacktestRunWithDedup(runs, run, storage) ==
    LET latest == latestComparableRun(runs, run)
    IN  IF latest # NoRun /\ isSameBacktestOutcome(run, latest)
          THEN [runs |-> runs, saved |-> FALSE, existingRunId |-> latest.id,
                storage |-> storage]
        ELSE [runs |-> IF storage = "file"
                         THEN lastN(Append(runs, run), BACKTEST_HISTORY_LIMIT)
                         ELSE Append(runs, run),
              saved |-> TRUE, existingRunId |-> NULL, storage |-> storage]

(***************************************************************************)
(* Error messages and the status POST /backtest/run answers them with      *)
(***************************************************************************)
\* Texts are sequences of characters, so that the route's pattern test is a
\* search for a run of characters.
CapitalMessage ==
    \* 'Capital must be a positive number'
    <<"C", "a", "p", "i", "t", "a", "l", " ", "m", "u", "s", "t", " ", "b", "e", " ",
      "a", " ", "p", "o", "s", "i", "t", "i", "v", "e", " ", "n", "u", "m", "b", "e",
      "r">>

NoSnapshotsMessage ==
    \* 'No intraday signal snapshots found for <tradeDate>'
    <<"N", "o", " ", "i", "n", "t", "r", "a", "d", "a", "y", " ", "s", "i", "g", "n",
      "a", "l", " ", "s", "n", "a", "p", "s", "h", "o", "t", "s", " ", "f", "o", "u",
      "n", "d", " ", "f", "o", "r">>

NoValidPicksMessage ==
    \* 'No valid picks in snapshot <id>'
    <<"N", "o", " ", "v", "a", "l", "i", "d", " ", "p", "i", "c", "k", "s", " ", "i",
      "n", " ", "s", "n", "a", "p", "s", "h", "o", "t">>

WriteFailedMessage ==
    \* fs.writeFile: 'ENOSPC: no space left on device, write'
    <<"E", "N", "O", "S", "P", "C", ":", " ", "n", "o", " ", "s", "p", "a", "c", "e",
      " ", "l", "e", "f", "t", " ", "o", "n", " ", "d", "e", "v", "i", "c", "e", ",",
      " ", "w", "r", "i", "t", "e">>

\* The alternatives of /capital|snapshot|No intraday signal snapshots|No valid picks/
ClientErrorPatterns ==
    {<<"c", "a", "p", "i", "t", "a", "l">>,
     <<"s", "n", "a", "p", "s", "h", "o", "t">>,
     <<"N", "o", " ", "i", "n", "t", "r", "a", "d", "a", "y", " ", "s", "i", "g", "n",
       "a", "l", " ", "s", "n", "a", "p", "s", "h", "o", "t", "s">>,
     <<"N", "o", " ", "v", "a", "l", "i", "d", " ", "p", "i", "c", "k", "s">>}

\* RegExp.prototype.test for a pattern without metacharacters: case-sensitive
\* search of the pattern anywhere in the text.
containsText(text, pattern) ==
    \E i \in 1..(Len(text) - Len(pattern) + 1) :
        SubSeq(text, i, i + Len(pattern) - 1) = pattern

\* The catch block of router.post('/backtest/run')
statusForError(message) ==
    IF \E pattern \in ClientErrorPatterns : containsText(message, pattern)
      THEN 400 ELSE 500

(***************************************************************************)
(* runIntradayBacktest                                                     *)
(***************************************************************************)
\* Mutant: every pick gets the whole capital, whatever the allocation mode.
perPickCapital_Whole(capital, allocationMode, nPicks) == [num |-> capital, den |-> 1]

\* Lines 907-910
perPickCapital(capital, allocationMode, nPicks) ==
    IF allocationMode = "split_across_picks"
      THEN [num |-> capital, den |-> nPicks]
      ELSE [num |-> capital, den |-> 1]

\* The call into backtestSinglePick for pick p: its arguments, its candle fetch
\* pending.
EnterPick(p, cap, signalMinute) ==
    /\ pick' = p
    /\ capitalPerPick' = cap
    /\ signalStartMinute' = signalMinute
    /\ dayCandles' = market[p.symbol]
    /\ tradableCandles' = <<>>
    /\ quantity' = 0
    /\ entryIdx' = 0
    /\ scanIdx' = 0
    /\ examined' = {}
    /\ pc' = "fetch"
    /\ trade' = NoTrade

\* A call that throws, and the route's answer to it.
Rejects(args, message) ==
    /\ lastRun' = [ok |-> FALSE, error |-> message, args |-> args,
                   httpStatus |-> statusForError(message),
                   storeBefore |-> IF mongoConnected THEN mongoRuns ELSE fileRuns]
    /\ prevRun' = lastRun
    /\ UNCHANGED <<runPc, runArgs, runSnapshot, runPicks, pickCursor, trades, btVars,
                   fetchFailed>>

\* Lines 858-916 (requireExactSnapshot false, no snapshotId): the inputs are
\* sanitized, the date's snapshot is read, and the first pick's simulation starts.
StartRun(date, capital, allocationMode) ==
    /\ runPc = "idle"
    /\ runCount < MaxRuns
    /\ runCount' = runCount + 1
    /\ LET args      == [tradeDate |-> date, capital |-> capital,
                         allocationMode |-> allocationMode]
           snapshots == listIntradaySignalSnapshots(date)
           picks     == sanitizePicks(snapshots[1].picks)
       IN  IF capital <= 0
             THEN Rejects(args, CapitalMessage)
           ELSE IF Len(snapshots) = 0
             THEN Rejects(args, NoSnapshotsMessage)
           ELSE IF Len(picks) = 0
             THEN Rejects(args, NoValidPicksMessage)
           ELSE /\ runArgs' = args
                /\ runSnapshot' = snapshots[1]
                /\ runPicks' = picks
                /\ pickCursor' = 1
                /\ trades' = <<>>
                /\ fetchFailed' = {}
                /\ runPc' = "simulating"
                /\ EnterPick(picks[1],
                             perPickCapital(capital, allocationMode, Len(picks)),
                             snapshots[1].istTime)
                /\ UNCHANGED <<lastRun, prevRun>>
    /\ UNCHANGED <<fnVars, scanVars, storeVars, saveVars, market, marketChanges, fileRuns, mongoRuns>>

\* for (const pick of picks): the next pick, or the end of the loop.
NextPickOrSummary ==
    IF pickCursor < Len(runPicks)
      THEN /\ pickCursor' = pickCursor + 1
           /\ EnterPick(runPicks[pickCursor + 1], capitalPerPick, signalStartMinute)
           /\ UNCHANGED runPc
      ELSE /\ runPc' = "persist"
           /\ pc' = "idle"
           /\ UNCHANGED <<pickCursor, pick, capitalPerPick, signalStartMinute, dayCandles,
                          tradableCandles, quantity, entryIdx, scanIdx, examined, trade>>

\* Lines 914-923: trades.push(trade), then the next pick or the end of the loop.
CollectTrade ==
    /\ runPc = "simulating"
    /\ pc = "done"
    /\ trades' = Append(trades, trade)
    /\ NextPickOrSummary
    /\ UNCHANGED <<fnVars, scanVars, storeVars, saveVars, market, marketChanges, fileRuns, mongoRuns,
                   runArgs, runSnapshot, runPicks, runCount, lastRun, prevRun, fetchFailed>>

\* Lines 924-944: the record pushed by the catch block.
errorResult(p, cap, message) == noTradeResult(p, cap, "error", message)

\* Mutant: the catch block pushes nothing.
tradesAfterFailure_Skipped(ts, p, cap, message) == ts

tradesAfterFailure(ts, p, cap, message) == Append(ts, errorResult(p, cap, message))

\* fetchOHLCV throws inside backtestSinglePick (lines 302, 323); the loop's catch
\* (lines 924-944) pushes an error record and the loop goes on.
FetchFails ==
    /\ runPc = "simulating"
    /\ pc = "fetch"
    /\ Cardinality(fetchFailed) < MaxFetchFailures
    /\ fetchFailed' = fetchFailed \cup {pickCursor}
    /\ trades' = tradesAfterFailure(trades, pick, capitalPerPick, "No OHLC data")
    /\ NextPickOrSummary
    /\ UNCHANGED <<fnVars, scanVars, storeVars, saveVars, market, marketChanges, fileRuns, mongoRuns,
                   runArgs, runSnapshot, runPicks, runCount, lastRun, prevRun>>

\* Lines 948-976: the summary, the run record, the dedup and the returned object.
\* The run record runIntradayBacktest builds after the loop (created at the
\* next tick of the clock).
builtRun ==
    [id |-> clock + 1, createdAt |-> clock + 1,
     tradeDate |-> runArgs.tradeDate,
     capital |-> round2(runArgs.capital * FINE),
     allocationMode |-> runArgs.allocationMode,
     snapshotId |-> runSnapshot.id,
     summary |-> buildSummary(trades, runArgs.capital, runArgs.allocationMode,
                              DEFAULT_INTRADAY_ROUND_TRIP_COST_BPS),
     trades |-> trades]

\* What runIntradayBacktest returns once persistBacktestRunWithDedup answered
\* `result`; `before` is the store that call read.
RunReturned(run, result, before) ==
    /\ lastRun' = [ok |-> TRUE, error |-> <<>>, args |-> runArgs,
                   httpStatus |-> 200,
                   run |-> run,
                   id |-> IF result.saved THEN run.id
                          ELSE Coalesce(result.existingRunId, run.id),
                   persisted |-> result.saved,
                   duplicateOfRunId |-> IF result.saved THEN NULL
                                        ELSE result.existingRunId,
                   storage |-> result.storage,
                   perPick |-> capitalPerPick,
                   candles |-> market,
                   picks |-> runPicks,
                   failed |-> fetchFailed,
                   storeBefore |-> before]
    /\ prevRun' = lastRun

FinishRun ==
    /\ runPc = "persist"
    /\ clock' = clock + 1
    /\ LET before == IF mongoConnected THEN mongoRuns ELSE fileRuns
           result == persistBacktestRunWithDedup(
                       before, builtRun, IF mongoConnected THEN "mongo" ELSE "file")
       IN  /\ IF mongoConnected
                THEN mongoRuns' = result.runs /\ UNCHANGED fileRuns
                ELSE fileRuns' = result.runs /\ UNCHANGED mongoRuns
           /\ RunReturned(builtRun, result, before)
    /\ runPc' = "idle"
    /\ UNCHANGED <<fnVars, scanVars, btVars, saveVars, mongoConnected, fileSnapshots, mongoSnapshots,
                   market, marketChanges, runArgs, runSnapshot, runPicks, pickCursor,
                   trades, runCount, fetchFailed>>

\* persistBacktestRunFile's writeJson throws (lines 130-133, 651-658): nothing is
\* stored and the call rejects with the file system's message.
PersistFails ==
    /\ runPc = "persist"
    /\ runPc' = "idle"
    /\ lastRun' = [ok |-> FALSE, error |-> WriteFailedMessage, args |-> runArgs,
                   httpStatus |-> statusForError(WriteFailedMessage),
                   storeBefore |-> IF mongoConnected THEN mongoRuns ELSE fileRuns]
    /\ prevRun' = lastRun
    /\ UNCHANGED <<fnVars, scanVars, btVars, storeVars, saveVars, market, marketChanges, fileRuns, mongoRuns,
                   runArgs, runSnapshot, runPicks, pickCursor, trades, runCount, fetchFailed>>

(***************************************************************************)
(* Inputs of the backtest runs                                             *)
(***************************************************************************)
\* The day's candles as <<low, high>> pairs around a pick's levels.
noCandles == <<>>
winningDay(p) == DayOf(2, <<<<p.entryPrice, p.entryPrice>>, <<p.entryPrice, p.target1>>>>)
losingDay(p) == DayOf(2, <<<<p.entryPrice, p.entryPrice>>, <<p.stopLoss, p.entryPrice>>>>)
lateEntryDay(p) == DayOf(2, <<<<p.target1, p.target1>>, <<p.entryPrice, p.entryPrice>>>>)

Markets ==
    {[sym \in Symbols |-> CASE sym = "A" -> a [] sym = "B" -> noCandles [] OTHER -> c] :
        a \in {winningDay(PickA), losingDay(PickA), noCandles},
        c \in {winningDay(PickC), lateEntryDay(PickC)}}

\* The data source answers differently for one symbol from now on.
MarketMoves ==
    /\ runPc = "idle"
    /\ marketChanges < MaxMarketChanges
    /\ marketChanges' = marketChanges + 1
    /\ \E m \in Markets : m # market /\ m["C"] = market["C"] /\ market' = m
    /\ UNCHANGED <<fnVars, scanVars, btVars, storeVars, saveVars, fileRuns, mongoRuns, runPc, runArgs,
                   runSnapshot, runPicks, pickCursor, trades, runCount, lastRun, prevRun,
                   fetchFailed>>

TradeDates == {"2026-01-05", "2026-01-06"}
Capitals == {0, 2500, 100000}
AllocationModes == {"per_pick", "split_across_picks"}

\* The store after one accepted scan of the first date.
InitRun ==
    /\ PickIdle
    /\ RunsIdle
    /\ FnIdle
    /\ ScanIdle
    /\ market \in Markets
    /\ mongoConnected \in BOOLEAN
    /\ clock = 1
    /\ lastSave = NoSave
    /\ offeredLog = <<>>
    /\ savers = <<NoSaver, NoSaver>>
    /\ \E stocks \in {<<PickX>>, <<PickA, PickC>>, <<PickA, PickX, PickB, PickC>>} :
         LET stored == <<buildSnapshot(stocks, "2026-01-05", SESSION_OPEN_MIN, 1)>>
         IN  /\ fileSnapshots = IF mongoConnected THEN <<>> ELSE stored
             /\ mongoSnapshots = IF mongoConnected THEN stored ELSE <<>>

NextRun ==
    \/ \E date \in TradeDates, capital \in Capitals, mode \in AllocationModes :
           StartRun(date, capital, mode)
    \/ BeginPick
    \/ ScanEntry
    \/ ScanExit
    \/ CollectTrade
    \/ FinishRun
    \/ MarketMoves

SpecRun == InitRun /\ [][NextRun]_vars

\* Runs during which candle fetches and the history file's write may throw.
NextFail ==
    \/ \E date \in TradeDates, capital \in {0, 100000}, mode \in AllocationModes :
           StartRun(date, capital, mode)
    \/ BeginPick
    \/ ScanEntry
    \/ ScanExit
    \/ CollectTrade
    \/ FetchFails
    \/ FinishRun
    \/ PersistFails

SpecFail == InitRun /\ [][NextFail]_vars

(***************************************************************************)
(* fetchBestGranularityCandles (SpecFetch)                                 *)
(***************************************************************************)
BACKTEST_INTERVAL_PRIORITY == <<"1m", "2m", "5m">>

\* A candle as fetchOHLCV answers it, before normalizeDayCandles.
RawCandle(k, date, minutes, low, high) ==
    [timestamp |-> k, istDate |-> date, minutes |-> minutes, low |-> low, high |-> high]

\* normalizeDayCandles: the candles of the trade date inside the session (the
\* answers are in time order, which the final sort keeps).
normalizeDayCandles(candles, tradeDate) ==
    SelectSeq(candles, LAMBDA c : /\ c.istDate = tradeDate
                                  /\ c.minutes >= SESSION_OPEN_MIN
                                  /\ c.minutes <= SESSION_CLOSE_MIN)

\* The loop over the intervals from the i-th on: a rejected fetch is not caught,
\* the first interval with candles of the date is returned.
RECURSIVE fetchFromInterval(_, _, _)
fetchFromInterval(answers, tradeDate, i) ==
    IF i > Len(BACKTEST_INTERVAL_PRIORITY)
      THEN [threw |-> FALSE,
            interval |-> BACKTEST_INTERVAL_PRIORITY[Len(BACKTEST_INTERVAL_PRIORITY)],
            dayCandles |-> <<>>]
    ELSE IF answers[i].rejected
      THEN [threw |-> TRUE, interval |-> BACKTEST_INTERVAL_PRIORITY[i], dayCandles |-> <<>>]
    ELSE LET normalized == normalizeDayCandles(answers[i].candles, tradeDate)
         IN  IF Len(normalized) > 0
               THEN [threw |-> FALSE, interval |-> BACKTEST_INTERVAL_PRIORITY[i],
                     dayCandles |-> normalized]
             ELSE fetchFromInterval(answers, tradeDate, i + 1)

fetchBestGranularityCandles(answers, tradeDate) ==
    fetchFromInterval(answers, tradeDate, 1)

\* backtestSinglePick's first await for a pick of the loop of runIntradayBacktest:
\* the candles, or the throw that the loop's catch turns into an error record.
FetchCandles ==
    /\ pc = "select_interval"
    /\ LET result == fetchBestGranularityCandles(input.answers, input.tradeDate)
       IN  IF result.threw
             THEN /\ trade' = errorResult(pick, capitalPerPick, "No OHLC data")
                  /\ pc' = "done"
                  /\ output' = [returned |-> FALSE, threw |-> TRUE,
                                interval |-> result.interval]
                  /\ UNCHANGED dayCandles
           ELSE /\ dayCandles' = result.dayCandles
                /\ pc' = "fetch"
                /\ output' = [returned |-> TRUE, threw |-> FALSE,
                              interval |-> result.interval]
                /\ UNCHANGED trade
    /\ UNCHANGED <<pick, capitalPerPick, signalStartMinute, tradableCandles, quantity,
                   entryIdx, scanIdx, examined>>
    /\ UNCHANGED <<input, scanVars, storeVars, saveVars, runVars>>

\* What the data source answers for one interval: a rejection, no candle, candles
\* of another day, a candle before the session opens, and two days of the trade
\* date that end differently.
FetchAnswers ==
    LET p == PickA
        d == "2026-01-05"
        open == SESSION_OPEN_MIN
    IN  {[rejected |-> TRUE, candles |-> <<>>],
         [rejected |-> FALSE, candles |-> <<>>],
         [rejected |-> FALSE,
          candles |-> <<RawCandle(1, "2026-01-02", open, p.entryPrice, p.target1)>>],
         [rejected |-> FALSE,
          candles |-> <<RawCandle(1, d, open - 5, p.entryPrice, p.target1)>>],
         [rejected |-> FALSE,
          candles |-> <<RawCandle(1, "2026-01-02", open, p.entryPrice, p.entryPrice),
                        RawCandle(2, d, open, p.entryPrice, p.entryPrice),
                        RawCandle(3, d, open + 5, p.entryPrice, p.target1)>>],
         [rejected |-> FALSE,
          candles |-> <<RawCandle(1, d, open, p.stopLoss, p.entryPrice)>>]}

InitFetch ==
    /\ pick = PickA
    /\ capitalPerPick = [num |-> 100000, den |-> 1]
    /\ signalStartMinute \in {NULL, SESSION_OPEN_MIN}
    /\ dayCandles = <<>>
    /\ tradableCandles = <<>>
    /\ quantity = 0
    /\ entryIdx = 0
    /\ scanIdx = 0
    /\ examined = {}
    /\ pc = "select_interval"
    /\ trade = NoTrade
    /\ StoresEmpty
    /\ mongoConnected = FALSE
    /\ RunsIdle
    /\ ScanIdle
    /\ market = [sym \in Symbols |-> <<>>]
    /\ input \in {[fn |-> "fetchBestGranularityCandles", tradeDate |-> "2026-01-05",
                   answers |-> a] :
                     a \in [1..Len(BACKTEST_INTERVAL_PRIORITY) -> FetchAnswers]}
    /\ output = NoOutput

NextFetch == FetchCandles \/ BeginPick \/ ScanEntry \/ ScanExit

SpecFetch == InitFetch /\ [][NextFetch]_vars

(***************************************************************************)
(* Saves while Mongo is connected and one of its calls rejects             *)
(***************************************************************************)
MaxFallbackSaves == 2

\* The awaited Mongo calls of saveIntradaySignalSnapshot's try block and of
\* persistBacktestRunWithDedup's try block.
SnapshotMongoCalls == {"find", "deleteMany", "create"}
RunMongoCalls == {"findOne", "create"}

\* The try block of saveIntradaySignalSnapshot reaches `call`: find always,
\* deleteMany with documents of the date that do not beat the snapshot, create
\* whenever the stored best does not beat the snapshot.
snapshotCallReached(docs, snapshot, call) ==
    LET existingDocs == sameDate(docs, snapshot.istDate)
        existingBest == pickBestSnapshotForDate(existingDocs)
        keepsStored  == /\ existingBest # NoSnapshot
                        /\ snapshotQuality(existingBest) >= snapshotQuality(snapshot)
    IN  CASE call = "find"       -> TRUE
          [] call = "deleteMany" -> ~keepsStored /\ existingDocs # <<>>
          [] OTHER               -> ~keepsStored

\* The collection after the try block threw at `call`: a rejected create comes
\* after the date's documents were deleted.
mongoSnapshotsAfterFailure(docs, snapshot, call) ==
    IF call = "create" THEN otherDates(docs, snapshot.istDate) ELSE docs

\* saveIntradaySignalSnapshot with Mongo connected and `call` rejecting: the
\* catch block logs and the call goes on to persistSignalSnapshotFile.
SaveSnapshotMongoFails(positiveStocks, istDate, istTime, call) ==
    /\ mongoConnected
    /\ Len(offeredLog) < MaxFallbackSaves
    /\ clock' = clock + 1
    /\ LET snapshot == buildSnapshot(positiveStocks, istDate, istTime, clock + 1)
           outcome  == persistSignalSnapshotFile(fileSnapshots, snapshot)
       IN  /\ snapshotCallReached(mongoSnapshots, snapshot, call)
           /\ mongoSnapshots' = mongoSnapshotsAfterFailure(mongoSnapshots, snapshot, call)
           /\ fileSnapshots' = outcome.snapshots
           /\ lastSave' = [offered |-> snapshot, returned |-> outcome.returned,
                           before |-> fileSnapshots, storage |-> "file"]
           /\ offeredLog' = Append(offeredLog, snapshot)
           /\ UNCHANGED savers
    /\ UNCHANGED <<fnVars, scanVars, mongoConnected, btVars, runVars>>

\* The try block of persistBacktestRunWithDedup reaches create when the newest
\* stored run of the key is not the same outcome.
runCallReached(docs, run, call) ==
    LET latest == latestComparableRun(docs, run)
    IN  call = "create" => ~(latest # NoRun /\ isSameBacktestOutcome(run, latest))

\* runIntradayBacktest's persistBacktestRunWithDedup with Mongo connected and
\* `call` rejecting: the catch block logs and the file branch runs.
FinishRunMongoFails(call) ==
    /\ runPc = "persist"
    /\ mongoConnected
    /\ runCallReached(mongoRuns, builtRun, call)
    /\ clock' = clock + 1
    /\ LET result == persistBacktestRunWithDedup(fileRuns, builtRun, "file")
       IN  /\ fileRuns' = result.runs
           /\ RunReturned(builtRun, result, fileRuns)
    /\ runPc' = "idle"
    /\ UNCHANGED <<fnVars, scanVars, btVars, saveVars, mongoConnected, fileSnapshots,
                   mongoSnapshots, mongoRuns, market, marketChanges, runArgs, runSnapshot,
                   runPicks, pickCursor, trades, runCount, fetchFailed>>

\* The file history left by earlier saves made while Mongo was down: none, one
\* date, or SIGNAL_HISTORY_LIMIT dates.
EarlierFileHistories ==
    LET first  == buildSnapshot(<<PickA>>, "2026-01-02", SESSION_OPEN_MIN, 1)
        second == buildSnapshot(<<PickA, PickC>>, "2026-01-05", SESSION_OPEN_MIN, 2)
        one    == persistSignalSnapshotFile(<<>>, first).snapshots
    IN  {<<>>, one, persistSignalSnapshotFile(one, second).snapshots}

\* Mongo is connected and holds the accepted scan of the first date.
InitFallback ==
    /\ PickIdle
    /\ RunsIdle
    /\ FnIdle
    /\ ScanIdle
    /\ market \in {m \in Markets : m["C"] = winningDay(PickC)}
    /\ mongoConnected = TRUE
    /\ clock = 3
    /\ lastSave = NoSave
    /\ offeredLog = <<>>
    /\ savers = <<NoSaver, NoSaver>>
    /\ fileSnapshots \in EarlierFileHistories
    /\ mongoSnapshots = <<buildSnapshot(<<PickA, PickC>>, "2026-01-05", SESSION_OPEN_MIN, 3)>>

NextFallback ==
    \/ \E stocks \in {<<PickA>>, <<PickA, PickB>>}, date \in {"2026-01-05", "2026-01-06"},
          call \in SnapshotMongoCalls :
           SaveSnapshotMongoFails(stocks, date, SESSION_OPEN_MIN + 5, call)
    \/ \E capital \in {100000}, mode \in AllocationModes :
           StartRun("2026-01-05", capital, mode)
    \/ BeginPick
    \/ ScanEntry
    \/ ScanExit
    \/ CollectTrade
    \/ FinishRun
    \/ \E call \in RunMongoCalls : FinishRunMongoFails(call)

SpecFallback == InitFallback /\ [][NextFallback]_vars

(***************************************************************************)
(* Entry plans: calculateSwingEntryPrice and calculateIntradayEntryPrice    *)
(*                                                                         *)
(* Inputs and returned prices are whole paise.  Inside the calculators     *)
(* money is counted in 1/SUB paise, and percentages, ATR multiples and     *)
(* risk-reward multiples in thousandths (MILLI); quotients are floored at  *)
(* that resolution where the program computes in floating point.  Ratios   *)
(* formatted with toFixed(2) are held in hundredths.  RSI is in points,    *)
(* market capitalisation in crore rupees, NULL stands for a missing or     *)
(* non-finite number.                                                      *)
(***************************************************************************)
SUB == 100
MILLI == 1000
DEFAULT_SWING_ROUND_TRIP_COST_BPS == 30

\* floor(a * b / c) and the remainder, for a, b >= 0 and c > 0, by doubling, so
\* that no intermediate product leaves the machine integers.
RECURSIVE mulDivQR(_, _, _)
mulDivQR(a, b, c) ==
    IF b = 0 THEN [q |-> 0, r |-> 0]
    ELSE LET h  == mulDivQR(a, b \div 2, c)
             r2 == 2 * h.r + (b % 2) * (a % c)
             q2 == 2 * h.q + (b % 2) * (a \div c)
         IN  [q |-> q2 + r2 \div c, r |-> r2 % c]

mulDiv(a, b, c) == mulDivQR(a, b, c).q

mulDivCeil(a, b, c) ==
    LET d == mulDivQR(a, b, c) IN IF d.r > 0 THEN d.q + 1 ELSE d.q

\* a * b / c rounded to the nearest whole, halves up
mulDivRound(a, b, c) ==
    LET d == mulDivQR(a, b, c) IN IF 2 * d.r >= c THEN d.q + 1 ELSE d.q

Abs(x) == IF x < 0 THEN 0 - x ELSE x

\* clamp(value, min, max) for a finite value
clamp(value, min, max) == Min(Max(value, min), max)

\* value * k for a coefficient k written in hundredths
times(value, hundredths) == (value * hundredths) \div 100

\* amount * (pct / 100), pct in thousandths of a percent
pctOf(amount, pct) == mulDiv(amount, pct, 100 * MILLI)

\* amount * multiple, the multiple in thousandths
timesMilli(amount, multiple) == mulDiv(amount, multiple, MILLI)

\* ((a - b) / b) * 100 in thousandths of a percent, rounded up, for a >= b: it is
\* only compared with whole thresholds by <=
distancePct(from, to, base) == mulDivCeil(to - from, 100 * MILLI, base)

\* Math.round(value * 100) / 100 of a positive amount: whole paise
roundToPaise(amount) == (amount + SUB \div 2) \div SUB

valid(x) == x # NULL /\ x > 0

\* A ratio num/den (den > 0) formatted by formatRatio: hundredths, halves away
\* from zero.
ratioHundredths(num, den) ==
    IF num >= 0 THEN mulDivRound(num, 100, den)
    ELSE 0 - mulDivRound(0 - num, 100, den)

NoRatio == [defined |-> FALSE, num |-> 0, den |-> 1]

\* calculateRiskReward: reward / risk as a pair, NoRatio for null
calculateRiskReward(entryPrice, stopLoss, target1) ==
    IF entryPrice - stopLoss <= 0 THEN NoRatio
    ELSE [defined |-> TRUE, num |-> target1 - entryPrice, den |-> entryPrice - stopLoss]

\* formatRatio(value): '0.00' for null
formatRatio(ratio) ==
    IF ratio.defined THEN ratioHundredths(ratio.num, ratio.den) ELSE 0

NoCostModel == [defined |-> FALSE]

\* applyRoundTripCostModel: prices in paise; the ratios are pairs in 1/10000
\* paise; the cost per share as the callers round it, the cost percentage in
\* hundredths of a percent.
applyRoundTripCostModel(entryPrice, stopLoss, target1, costBps) ==
    IF entryPrice <= 0 \/ ~calculateRiskReward(entryPrice, stopLoss, target1).defined
      THEN NoCostModel
    ELSE LET effectiveCostBps == IF costBps # NULL /\ costBps >= 0 THEN costBps ELSE 0
             cost   == entryPrice * effectiveCostBps
             risk   == Max(entryPrice - stopLoss, 0) * 10000
             reward == Max(target1 - entryPrice, 0) * 10000
         IN  [defined |-> TRUE,
              riskRewardGross |-> calculateRiskReward(entryPrice, stopLoss, target1),
              riskRewardAfterCosts |->
                  IF risk + cost > 0
                    THEN [defined |-> TRUE, num |-> Max(reward - cost, 0), den |-> risk + cost]
                    ELSE NoRatio,
              estimatedRoundTripCostPerShare |-> mulDivRound(entryPrice, effectiveCostBps, 10000),
              estimatedRoundTripCostPct |-> effectiveCostBps]

\* The plan returned for a price that is not a positive finite number.
invalidPlan ==
    [returned |-> TRUE, entryPrice |-> NULL, stopLoss |-> NULL, target1 |-> NULL,
     target2 |-> NULL, entryType |-> "invalid", riskReward |-> 0,
     riskRewardAfterCosts |-> 0, riskRewardGross |-> 0]

\* The plan built from the levels in 1/SUB paise and the entry in paise:
\* rounding, the cost model and the formatted ratios (the end of both
\* calculators).
planOf(entryPrice, stopLossRaw, target1Raw, target2Raw, entryType, costBps) ==
    LET stopLoss == roundToPaise(stopLossRaw)
        target1  == roundToPaise(target1Raw)
        target2  == roundToPaise(target2Raw)
        rrStats  == applyRoundTripCostModel(entryPrice, stopLoss, target1, costBps)
        rrGross  == IF rrStats.defined THEN rrStats.riskRewardGross
                    ELSE calculateRiskReward(entryPrice, stopLoss, target1)
        rrNet    == IF rrStats.defined /\ rrStats.riskRewardAfterCosts.defined
                      THEN rrStats.riskRewardAfterCosts ELSE rrGross
    IN  [returned |-> TRUE, entryPrice |-> entryPrice, stopLoss |-> stopLoss,
         target1 |-> target1, target2 |-> target2, entryType |-> entryType,
         riskReward |-> formatRatio(rrNet),
         riskRewardAfterCosts |-> formatRatio(rrNet),
         riskRewardGross |-> formatRatio(rrGross),
         rrNet |-> rrNet]

\* Lines 475-524: the entry setup of a swing plan, [price, type]
swingEntrySetup(currentPrice, args, atrPct) ==
    LET swingVWAP     == args.swingVWAP * SUB
        support       == args.support * SUB
        resistance    == args.resistance * SUB
        normalizedRSI == Coalesce(args.rsi, 50)
        effectiveGap  == IF args.gapNowPct # NULL THEN args.gapNowPct
                         ELSE Coalesce(args.gapOpenPct, 0)
    IN  IF /\ valid(args.swingVWAP)
           /\ currentPrice > swingVWAP
           /\ normalizedRSI >= 45
           /\ normalizedRSI <= 72
          THEN IF distancePct(swingVWAP, currentPrice, swingVWAP)
                    <= clamp(times(atrPct, 90), 1200, 3800)
                 THEN [price |-> Min(currentPrice,
                                     swingVWAP + pctOf(swingVWAP,
                                                       clamp(times(atrPct, 18), 120, 450))),
                       type |-> "swing_vwap"]
                 ELSE [price |-> currentPrice, type |-> "swing_momentum"]
        ELSE IF /\ valid(args.support)
                /\ support < currentPrice
                /\ distancePct(support, currentPrice, currentPrice)
                     <= clamp(atrPct, 1200, 4000)
                /\ normalizedRSI >= 35
                /\ normalizedRSI <= 62
          THEN [price |-> Min(currentPrice,
                              support + pctOf(support, clamp(times(atrPct, 10), 80, 300))),
                type |-> "swing_support"]
        ELSE IF /\ valid(args.resistance)
                /\ currentPrice >= mulDivCeil(resistance, 997, 1000)
                /\ normalizedRSI >= 50
                /\ normalizedRSI <= 72
                /\ (args.volumeSpike \/ args.candleColor = "green")
          THEN [price |-> Min(currentPrice,
                              resistance + pctOf(resistance,
                                                 clamp(times(atrPct, 8), 50, 250))),
                type |-> "swing_breakout"]
        ELSE IF normalizedRSI >= 44 /\ normalizedRSI <= 64 /\ Abs(effectiveGap) <= 1500
          THEN [price |-> currentPrice, type |-> "swing_consolidation"]
        ELSE IF normalizedRSI >= 48 /\ normalizedRSI <= 70 /\ args.candleColor = "green"
          THEN [price |-> currentPrice, type |-> "swing_momentum"]
        ELSE [price |-> currentPrice, type |-> "swing_market"]

\* Lines 531-573 and 901-913: the stop of a plan from the structure levels and
\* the ATR, then the risk per share clamped; returns the risk per share.
\* k holds the calculator's coefficients.
riskPerShareOf(entryPrice, atrPct, atrMove, anchor, hasAnchor, support, hasSupport, stopAtrMultiple, k) ==
    LET minStopDistancePct == clamp(times(atrPct, k.minStop[1]), k.minStop[2], k.minStop[3])
        maxStopDistancePct == clamp(times(atrPct, k.maxStop[1]), k.maxStop[2], k.maxStop[3])
        atrStopPct == clamp(times(atrPct, stopAtrMultiple),
                            minStopDistancePct, maxStopDistancePct)
        atrStop    == entryPrice - pctOf(entryPrice, atrStopPct)
        anchorStop ==
            IF /\ hasAnchor
               /\ anchor < entryPrice
               /\ distancePct(anchor, entryPrice, entryPrice)
                    <= Max(times(atrPct, k.anchorReach[1]), k.anchorReach[2])
              THEN {anchor - timesMilli(atrMove, k.anchorOffset)} ELSE {}
        supportStop ==
            IF /\ hasSupport
               /\ support < entryPrice
               /\ distancePct(support, entryPrice, entryPrice)
                    <= Max(times(atrPct, k.supportReach[1]), k.supportReach[2])
              THEN {support - timesMilli(atrMove, k.supportOffset)} ELSE {}
        structureStops == anchorStop \cup supportStop
        stopLoss0 == IF structureStops # {}
                       THEN CHOOSE s \in structureStops : \A t \in structureStops : t <= s
                       ELSE atrStop
        nearestAllowedStop  == entryPrice - pctOf(entryPrice, minStopDistancePct)
        farthestAllowedStop == entryPrice - pctOf(entryPrice, maxStopDistancePct)
        stopLoss1 == Max(Min(stopLoss0, nearestAllowedStop), farthestAllowedStop)
        minRiskPct == clamp(times(atrPct, k.minRisk[1]), k.minRisk[2], k.minRisk[3])
        maxRiskPct == clamp(times(atrPct, k.maxRisk[1]), k.maxRisk[2], k.maxRisk[3])
    IN  clamp(entryPrice - stopLoss1, pctOf(entryPrice, minRiskPct),
              pctOf(entryPrice, maxRiskPct))

\* The coefficients of lines 527-528, 546-556 and 567-568
swingStopCoefficients ==
    [minStop |-> <<85, 1200, 3000>>, maxStop |-> <<190, 2800, 7500>>,
     anchorReach |-> <<160, 3500>>, anchorOffset |-> 300,
     supportReach |-> <<180, 4000>>, supportOffset |-> 350,
     minRisk |-> <<55, 1000, 2800>>, maxRisk |-> <<200, 2500, 7800>>]

\* Lines 530-538: stopAtrMultipleByType, in hundredths
swingStopAtrMultiple(entryType) ==
    CASE entryType = "swing_vwap" -> 110
      [] entryType = "swing_support" -> 100
      [] entryType = "swing_breakout" -> 135
      [] entryType = "swing_consolidation" -> 120
      [] entryType = "swing_momentum" -> 125
      [] OTHER -> 115

\* Lines 573-590: the first target's multiple of the risk, in thousandths
swingRR1(entryType, normalizedRSI, effectiveGap, volumeSpike) ==
    LET base == CASE entryType = "swing_vwap" -> 2000
                  [] entryType = "swing_support" -> 2400
                  [] entryType = "swing_breakout" -> 2100
                  [] entryType = "swing_consolidation" -> 1900
                  [] OTHER -> 1800
        byRSI == IF normalizedRSI >= 66 THEN 0 - 200
                 ELSE IF normalizedRSI <= 50 THEN 200 ELSE 0
        byGap == IF Abs(effectiveGap) > 1500 THEN 0 - 100 ELSE 0
        byFall == IF effectiveGap <= 0 - 2500 /\ entryType = "swing_market"
                    THEN 0 - 250 ELSE 0
        byVolume == IF volumeSpike THEN 100 ELSE 0
    IN  clamp(base + byRSI + byGap + byFall + byVolume, 1500, 3200)

\* Lines 618-637: the cap of the second target, in thousandths of a percent
swingTarget2CapPct(marketCap, atrPct, entryType, normalizedRSI, effectiveGap, volumeSpike) ==
    LET base == IF ~valid(marketCap) THEN 10500
                ELSE IF marketCap >= 150000 THEN 7500
                ELSE IF marketCap >= 50000 THEN 8500
                ELSE IF marketCap >= 20000 THEN 9500
                ELSE IF marketCap >= 8000 THEN 11000
                ELSE 12500
        byType == CASE entryType = "swing_breakout" -> 1000
                    [] entryType = "swing_support" -> 600
                    [] entryType = "swing_market" -> 0 - 600
                    [] OTHER -> 0
        byRSI == IF normalizedRSI >= 64 THEN 0 - 700
                 ELSE IF normalizedRSI <= 48 THEN 400 ELSE 0
    IN  clamp(base + clamp(times(atrPct - 3000, 70), 0 - 1000, 2000) + byType + byRSI
                + (IF volumeSpike THEN 300 ELSE 0)
                + (IF effectiveGap <= 0 - 1500 THEN 0 - 400 ELSE 0),
              6500, 15000)

\* Lines 646-657: the ATR multiple of the runner beyond resistance, thousandths
swingPostResistanceAtrMult(marketCap, atrPct, normalizedRSI, volumeSpike) ==
    LET base == IF ~valid(marketCap) THEN 1200
                ELSE IF marketCap >= 150000 THEN 800
                ELSE IF marketCap >= 50000 THEN 1000
                ELSE IF marketCap >= 20000 THEN 1200
                ELSE IF marketCap >= 8000 THEN 1400
                ELSE 1600
    IN  clamp(base + clamp(times(atrPct - 3000, 8), 0 - 150, 250)
                + (IF volumeSpike THEN 100 ELSE 0)
                + (IF normalizedRSI >= 62 THEN 0 - 100 ELSE 0),
              750, 1800)

\* Lines 659-672 and 977-990: the second target held under the runner cap.
runnerTarget2(target1, target2, tightRunnerCap, wideStep, narrowStep) ==
    IF tightRunnerCap > target1
      THEN LET minRunnerStep == IF target1 + wideStep > tightRunnerCap
                                  THEN narrowStep ELSE wideStep
           IN  Min(Max(Min(target2, tightRunnerCap), target1 + minRunnerStep),
                   tightRunnerCap)
      ELSE target2

\* Lines 597-611: the first target, [price, capped]
swingTarget1(entryPrice, riskPerShare, rr1, args, entryType, atrPct, atrMove) ==
    LET resistance == args.resistance * SUB
        target1    == entryPrice + timesMilli(riskPerShare, rr1)
    IN  IF valid(args.resistance) /\ resistance > entryPrice /\ entryType # "swing_breakout"
          THEN [price |-> Min(target1,
                              resistance - pctOf(resistance,
                                                 clamp(times(atrPct, 12), 150, 550))),
                capped |-> TRUE]
        ELSE IF valid(args.resistance) /\ resistance > entryPrice
          THEN [price |-> Min(target1, resistance + timesMilli(atrMove, 900)),
                capped |-> TRUE]
        ELSE [price |-> Max(target1, entryPrice + timesMilli(riskPerShare, 1050)),
              capped |-> FALSE]

\* Lines 573-672: the targets of a swing plan from its entry and its risk per
\* share, then the plan (lines 678-710)
swingPlanWithRisk(args, atrPct, atrMove, entryType, entryPaise, riskPerShare, rr1) ==
    LET entryPrice    == entryPaise * SUB
        resistance    == args.resistance * SUB
        normalizedRSI == Coalesce(args.rsi, 50)
        effectiveGap  == IF args.gapNowPct # NULL THEN args.gapNowPct
                         ELSE Coalesce(args.gapOpenPct, 0)
        rr2           == clamp(rr1 + Max(times(rr1, 90), 1200), 2800, 5800)
        t1            == swingTarget1(entryPrice, riskPerShare, rr1, args, entryType,
                                      atrPct, atrMove)
        target1       == t1.price
        resistanceAhead == valid(args.resistance) /\ resistance > entryPrice
        target2a      == Max(entryPrice + timesMilli(riskPerShare, rr2),
                             target1 + Max(timesMilli(riskPerShare, 550),
                                           timesMilli(entryPrice, 6)))
        target2b      == IF resistanceAhead /\ target2a <= resistance
                           THEN resistance + timesMilli(atrMove, 1200) ELSE target2a
        target2CapPrice ==
            entryPrice + pctOf(entryPrice,
                               swingTarget2CapPct(args.marketCap, atrPct, entryType,
                                                  normalizedRSI, effectiveGap,
                                                  args.volumeSpike))
        target2c      == IF target2CapPrice > target1 THEN Min(target2b, target2CapPrice)
                         ELSE target2b
        tightRunnerCap ==
            Min(resistance + timesMilli(atrMove,
                                        swingPostResistanceAtrMult(args.marketCap, atrPct,
                                                                   normalizedRSI,
                                                                   args.volumeSpike)),
                resistance + pctOf(resistance, clamp(times(atrPct, 40), 600, 2200)))
        target2d      == IF t1.capped /\ valid(args.resistance) /\ entryType # "swing_breakout"
                           THEN runnerTarget2(target1, target2c, tightRunnerCap,
                                              Max(mulDiv(entryPrice, 25, 10000),
                                                  timesMilli(riskPerShare, 200)),
                                              Max(mulDiv(entryPrice, 12, 10000),
                                                  timesMilli(riskPerShare, 100)))
                         ELSE target2c
        target2       == IF target2d <= target1
                           THEN target1 + Max(mulDiv(entryPrice, 25, 10000),
                                              timesMilli(riskPerShare, 200))
                         ELSE target2d
    IN  planOf(entryPaise, entryPrice - riskPerShare, target1, target2, entryType,
               DEFAULT_SWING_ROUND_TRIP_COST_BPS)

\* Lines 527-590: the risk per share and the first target's multiple of a
\* swing plan from its entry
swingPlanWithEntry(args, atrPct, atrMove, entryType, entryPaise) ==
    swingPlanWithRisk(args, atrPct, atrMove, entryType, entryPaise,
                      riskPerShareOf(entryPaise * SUB, atrPct, atrMove,
                                     args.swingVWAP * SUB, valid(args.swingVWAP),
                                     args.support * SUB, valid(args.support),
                                     swingStopAtrMultiple(entryType),
                                     swingStopCoefficients),
                      swingRR1(entryType, Coalesce(args.rsi, 50),
                               IF args.gapNowPct # NULL THEN args.gapNowPct
                               ELSE Coalesce(args.gapOpenPct, 0),
                               args.volumeSpike))

\* calculateSwingEntryPrice
calculateSwingEntryPrice(args) ==
    IF ~valid(args.price) THEN invalidPlan
    ELSE
    LET currentPrice  == args.price * SUB
        atrPct        == clamp(Coalesce(args.volatilityPct, 2400), 1000, 7500)
        setup         == swingEntrySetup(currentPrice, args, atrPct)
    IN  swingPlanWithEntry(args, atrPct, pctOf(currentPrice, atrPct), setup.type,
                           roundToPaise(Min(setup.price, currentPrice)))

\* Lines 773-822: the entry setup of an intraday plan, [price, type]
intradayEntrySetup(currentPrice, args, atrPct) ==
    LET vwap          == args.vwap * SUB
        support       == args.support * SUB
        resistance    == args.resistance * SUB
        normalizedRSI == Coalesce(args.rsi, 50)
        gapOpenPct    == Coalesce(args.gapOpenPct, 0)
    IN  IF /\ valid(args.vwap)
           /\ currentPrice > vwap
           /\ normalizedRSI >= 42
           /\ normalizedRSI <= 80
          THEN IF distancePct(vwap, currentPrice, vwap)
                    <= clamp(times(atrPct, 110), 450, 2100)
                 THEN [price |-> Min(currentPrice,
                                     vwap + pctOf(vwap, clamp(times(atrPct, 12), 50, 180))),
                       type |-> "vwap_pullback"]
                 ELSE [price |-> currentPrice, type |-> "trend_continuation"]
        ELSE IF /\ valid(args.support)
                /\ support < currentPrice
                /\ distancePct(support, currentPrice, currentPrice)
                     <= clamp(times(atrPct, 110), 800, 2500)
                /\ normalizedRSI >= 35
                /\ normalizedRSI <= 62
          THEN [price |-> Min(currentPrice,
                              support + pctOf(support, clamp(times(atrPct, 9), 50, 160))),
                type |-> "support_level"]
        ELSE IF /\ valid(args.resistance)
                /\ currentPrice >= mulDivCeil(resistance, 998, 1000)
                /\ normalizedRSI >= 48
                /\ normalizedRSI <= 72
                /\ (args.volumeSpike \/ args.candleColor = "green")
          THEN [price |-> Min(currentPrice,
                              resistance + pctOf(resistance,
                                                 clamp(times(atrPct, 8), 40, 140))),
                type |-> "resistance_breakout"]
        ELSE IF gapOpenPct > 800 /\ gapOpenPct < 4500 /\ args.candleColor = "green"
          THEN [price |-> currentPrice, type |-> "orb_breakout"]
        ELSE IF normalizedRSI >= 45 /\ normalizedRSI <= 65 /\ Abs(gapOpenPct) <= 600
          THEN [price |-> currentPrice, type |-> "consolidation_level"]
        ELSE IF normalizedRSI >= 50 /\ normalizedRSI <= 70
          THEN [price |-> currentPrice, type |-> "volume_confirmed_level"]
        ELSE [price |-> currentPrice, type |-> "market_level"]

\* Lines 824-831
pullbackPreferredEntryTypes ==
    {"vwap_pullback", "trend_continuation", "support_level", "consolidation_level",
     "volume_confirmed_level", "market_level"}

\* Lines 833-848: the limit entry below the market price
preferredEntry(currentPrice, args, atrPct) ==
    LET vwap           == args.vwap * SUB
        minPullbackPct == clamp(times(atrPct, 16), 80, 220)
        maxPullbackPct == clamp(times(atrPct, 55), 200, 750)
        anchorBufferPct == clamp(times(atrPct, 8), 40, 160)
        pulledBack     == currentPrice - pctOf(currentPrice, minPullbackPct)
        anchored       == IF valid(args.vwap) /\ vwap < currentPrice
                            THEN Max(pulledBack, vwap + pctOf(vwap, anchorBufferPct))
                            ELSE pulledBack
        floored        == Max(anchored, currentPrice - pctOf(currentPrice, maxPullbackPct))
        minTickBelow   == Max(mulDiv(currentPrice, 2, 10000), 5 * SUB)
    IN  Min(floored, currentPrice - minTickBelow)

\* The coefficients of lines 859-860, 876-899 and 909-910
intradayStopCoefficients ==
    [minStop |-> <<65, 450, 1200>>, maxStop |-> <<170, 1000, 2800>>,
     anchorReach |-> <<220, 1600>>, anchorOffset |-> 250,
     supportReach |-> <<260, 2000>>, supportOffset |-> 200,
     minRisk |-> <<60, 350, 1100>>, maxRisk |-> <<190, 1200, 3000>>]

\* Lines 862-871: stopAtrMultipleByType, in hundredths
intradayStopAtrMultiple(entryType) ==
    CASE entryType = "vwap_pullback" -> 85
      [] entryType = "trend_continuation" -> 105
      [] entryType = "resistance_breakout" -> 115
      [] entryType = "orb_breakout" -> 120
      [] entryType = "consolidation_level" -> 95
      [] OTHER -> 100

\* Lines 916-935: the first target's multiple of the risk, in thousandths
intradayRR1(entryType, normalizedRSI, atrPct, volumeSpike) ==
    LET base == CASE entryType = "vwap_pullback" -> 1600
                  [] entryType = "support_level" -> 1800
                  [] entryType = "resistance_breakout" -> 1500
                  [] entryType = "orb_breakout" -> 1400
                  [] entryType = "consolidation_level" -> 1450
                  [] entryType = "volume_confirmed_level" -> 1400
                  [] OTHER -> 1350
        byRSI == IF normalizedRSI >= 63 THEN 0 - 150
                 ELSE IF normalizedRSI <= 48 THEN 120 ELSE 0
        byATR == IF atrPct >= 2000 THEN 0 - 80
                 ELSE IF atrPct <= 800 THEN 80 ELSE 0
    IN  clamp(base + byRSI + byATR + (IF volumeSpike THEN 50 ELSE 0), 1200, 2100)

\* Lines 964-975: the ATR multiple of the runner beyond resistance, thousandths
intradayPostResistanceAtrMult(entryType, atrPct, normalizedRSI, volumeSpike) ==
    LET base == CASE entryType = "trend_continuation" -> 550
                  [] entryType = "support_level" -> 650
                  [] entryType = "consolidation_level" -> 450
                  [] entryType = "market_level" -> 450
                  [] OTHER -> 500
    IN  clamp(base + clamp(times(atrPct - 1200, 8), 0 - 80, 200)
                + (IF volumeSpike THEN 50 ELSE 0)
                + (IF normalizedRSI >= 62 THEN 0 - 50 ELSE 0),
              350, 900)

\* Lines 940-949: the first target, [price, capped]
intradayTarget1(entryPrice, riskPerShare, rr1, args, atrPct) ==
    LET resistance    == args.resistance * SUB
        target1       == entryPrice + timesMilli(riskPerShare, rr1)
        resistanceCap == resistance - pctOf(resistance, clamp(times(atrPct, 15), 80, 350))
    IN  IF /\ valid(args.resistance)
           /\ resistance > entryPrice
           /\ resistanceCap > entryPrice + timesMilli(riskPerShare, 900)
          THEN [price |-> Min(target1, resistanceCap), capped |-> resistanceCap < target1]
          ELSE [price |-> target1, capped |-> FALSE]

\* Lines 762-776: the plan of the stretch zone
scalpOnlyPlan(currentPrice) ==
    [returned |-> TRUE,
     entryPrice |-> roundToPaise(currentPrice),
     stopLoss |-> roundToPaise(mulDiv(currentPrice, 988, 1000)),
     target1 |-> roundToPaise(mulDiv(currentPrice, 1010, 1000)),
     target2 |-> roundToPaise(mulDiv(currentPrice, 1018, 1000)),
     entryType |-> "scalp_only",
     riskReward |-> 60, riskRewardAfterCosts |-> 60, riskRewardGross |-> 70]

\* The guard of lines 1009-1026: a plan whose net ratio is below 1 is returned
\* with entryType rr_weak.
rrGuard(plan) ==
    IF ~plan.rrNet.defined \/ plan.rrNet.num < plan.rrNet.den
      THEN [plan EXCEPT !.entryType = "rr_weak"]
      ELSE plan

\* Lines 937-1026: the targets of an intraday plan from its entry and its risk
\* per share, then the plan under the guard on its net ratio
intradayPlanWithRisk(args, atrPct, atrMove, entryType, entryPaise, riskPerShare, rr1) ==
    LET entryPrice    == entryPaise * SUB
        resistance    == args.resistance * SUB
        normalizedRSI == Coalesce(args.rsi, 50)
        rr2           == clamp(rr1 + Max(times(rr1, 75), 800), 2000, 3600)
        t1            == intradayTarget1(entryPrice, riskPerShare, rr1, args, atrPct)
        target1       == t1.price
        resistanceAhead == valid(args.resistance) /\ resistance > entryPrice
        target2a      == Max(entryPrice + timesMilli(riskPerShare, rr2),
                             target1 + Max(timesMilli(riskPerShare, 600),
                                           timesMilli(entryPrice, 4)))
        target2b      == IF resistanceAhead /\ target2a <= resistance
                           THEN resistance + timesMilli(atrMove, 800) ELSE target2a
        tightRunnerCap ==
            Min(resistance + timesMilli(atrMove,
                                        intradayPostResistanceAtrMult(entryType, atrPct,
                                                                      normalizedRSI,
                                                                      args.volumeSpike)),
                resistance + pctOf(resistance, clamp(times(atrPct, 25), 250, 900)))
        target2c      == IF /\ t1.capped
                            /\ valid(args.resistance)
                            /\ entryType \notin {"resistance_breakout", "orb_breakout"}
                           THEN runnerTarget2(target1, target2b, tightRunnerCap,
                                              Max(mulDiv(entryPrice, 1, 1000),
                                                  timesMilli(riskPerShare, 150)),
                                              Max(mulDiv(entryPrice, 5, 10000),
                                                  timesMilli(riskPerShare, 80)))
                         ELSE target2b
        target2       == IF target2c <= target1
                           THEN target1 + Max(mulDiv(entryPrice, 5, 10000),
                                              timesMilli(riskPerShare, 80))
                         ELSE target2c
    IN  rrGuard(planOf(entryPaise, entryPrice - riskPerShare, target1, target2, entryType,
                       DEFAULT_INTRADAY_ROUND_TRIP_COST_BPS))

\* Lines 859-935: the risk per share and the first target's multiple of an
\* intraday plan from its entry
intradayPlanWithEntry(args, atrPct, atrMove, entryType, entryPaise) ==
    intradayPlanWithRisk(args, atrPct, atrMove, entryType, entryPaise,
                         riskPerShareOf(entryPaise * SUB, atrPct, atrMove,
                                        args.vwap * SUB, valid(args.vwap),
                                        args.support * SUB, valid(args.support),
                                        intradayStopAtrMultiple(entryType),
                                        intradayStopCoefficients),
                         intradayRR1(entryType, Coalesce(args.rsi, 50), atrPct,
                                     args.volumeSpike))

\* Mutant: the guard does not look at the RSI.
stretchZone_AnyRsi(currentPrice, args, atrPct) ==
    /\ valid(args.vwap)
    /\ currentPrice > args.vwap * SUB
    /\ distancePct(args.vwap * SUB, currentPrice, args.vwap * SUB)
         > clamp(times(atrPct, 180), 3000, 5500)
    /\ ~args.volumeSpike

\* Lines 763-765: the price is stretched above VWAP without volume
stretchZone(currentPrice, args, atrPct) ==
    /\ valid(args.vwap)
    /\ currentPrice > args.vwap * SUB
    /\ distancePct(args.vwap * SUB, currentPrice, args.vwap * SUB)
         > clamp(times(atrPct, 180), 3000, 5500)
    /\ ~args.volumeSpike
    /\ Coalesce(args.rsi, 50) > 60

\* calculateIntradayEntryPrice
calculateIntradayEntryPrice(args) ==
    IF ~valid(args.price) THEN invalidPlan
    ELSE
    LET currentPrice  == args.price * SUB
        atrPct        == clamp(Coalesce(args.volatilityPct, 1100), 450, 3800)
        setup         == intradayEntrySetup(currentPrice, args, atrPct)
        preferred     == preferredEntry(currentPrice, args, atrPct)
        entry         == IF setup.type \in pullbackPreferredEntryTypes /\ preferred > 0
                           THEN preferred ELSE setup.price
    IN  IF stretchZone(currentPrice, args, atrPct)
          THEN scalpOnlyPlan(currentPrice)
          ELSE intradayPlanWithEntry(args, atrPct, pctOf(currentPrice, atrPct), setup.type,
                                     roundToPaise(Min(entry, currentPrice)))

(***************************************************************************)
(* Calls of the entry-plan calculators (SpecPlan)                          *)
(***************************************************************************)
\* Market prices in paise; NULL is a price that is not a positive finite number.
PlanPrices == {NULL, 10000, 25000}

\* The structure levels, relative to the market price: missing, far below,
\* just below, just above, above and far above.
LevelOffsetsBps == {0 - 1000, 0 - 50, 10, 500, 2000}

LevelsAround(price) ==
    {NULL} \cup (IF price = NULL THEN {}
                 ELSE {price + (price * off) \div 10000 : off \in LevelOffsetsBps})

VwapsAround(price) ==
    {NULL} \cup (IF price = NULL THEN {}
                 ELSE {price - price \div 10, price - price \div 25, price - price \div 200,
                       price + price \div 50})

SupportsAround(price) ==
    {NULL} \cup (IF price = NULL THEN {} ELSE {price - price \div 50})

RSIs == {NULL, 40, 55, 68}

Volatilities == {NULL, 800, 2500}

GapPcts == {NULL, 1000}

\* The arguments of one call of calculateSwingEntryPrice
SwingPlanInputs ==
    UNION {
      {[fn |-> "calculateSwingEntryPrice", price |-> price, marketCap |-> 5000,
        swingVWAP |-> vwap, support |-> support, resistance |-> resistance,
        rsi |-> rsi, candleColor |-> color, gapOpenPct |-> gap, gapNowPct |-> NULL,
        volumeSpike |-> spike, volatilityPct |-> vol] :
          vwap \in VwapsAround(price), support \in SupportsAround(price),
          resistance \in LevelsAround(price), rsi \in RSIs,
          color \in {"green", "red"}, gap \in GapPcts, spike \in BOOLEAN,
          vol \in Volatilities} : price \in PlanPrices}

\* The arguments of one call of calculateIntradayEntryPrice
IntradayPlanInputs ==
    UNION {
      {[fn |-> "calculateIntradayEntryPrice", price |-> price,
        vwap |-> vwap, support |-> support, resistance |-> resistance,
        rsi |-> rsi, candleColor |-> color, gapOpenPct |-> gap,
        volumeSpike |-> spike, volatilityPct |-> vol] :
          vwap \in VwapsAround(price), support \in SupportsAround(price),
          resistance \in LevelsAround(price), rsi \in RSIs,
          color \in {"green", "red"}, gap \in GapPcts, spike \in BOOLEAN,
          vol \in Volatilities} : price \in PlanPrices}

\* The arguments of one call of applyRoundTripCostModel by a calculator: the
\* rounded levels of a plan, in paise.
CostModelInputs ==
    {[fn |-> "applyRoundTripCostModel", entryPrice |-> 10000, stopLoss |-> stopLoss,
      target1 |-> target1, costBps |-> costBps] :
        stopLoss \in {9800, 9950, 10000}, target1 \in {9990, 10000, 10010, 10300},
        costBps \in {NULL, 0, DEFAULT_INTRADAY_ROUND_TRIP_COST_BPS,
                     DEFAULT_SWING_ROUND_TRIP_COST_BPS}}

\* The service does nothing else while a pure function is evaluated.
ServiceIdle ==
    /\ ScanIdle
    /\ StoresEmpty
    /\ mongoConnected = FALSE
    /\ PickIdle
    /\ RunsIdle
    /\ market = [sym \in Symbols |-> <<>>]

InitPlan ==
    /\ ServiceIdle
    /\ input \in SwingPlanInputs \cup IntradayPlanInputs \cup CostModelInputs
    /\ output = NoOutput

CallSwingPlan ==
    /\ input.fn = "calculateSwingEntryPrice"
    /\ ~output.returned
    /\ output' = calculateSwingEntryPrice(input)
    /\ UNCHANGED <<btVars, storeVars, saveVars, runVars, input, scanVars>>

CallIntradayPlan ==
    /\ input.fn = "calculateIntradayEntryPrice"
    /\ ~output.returned
    /\ output' = calculateIntradayEntryPrice(input)
    /\ UNCHANGED <<btVars, storeVars, saveVars, runVars, input, scanVars>>

CallCostModel ==
    /\ input.fn = "applyRoundTripCostModel"
    /\ ~output.returned
    /\ output' = [returned |-> TRUE,
                  stats |-> applyRoundTripCostModel(input.entryPrice, input.stopLoss,
                                                    input.target1, input.costBps)]
    /\ UNCHANGED <<btVars, storeVars, saveVars, runVars, input, scanVars>>

NextPlan ==
    \/ CallSwingPlan
    \/ CallIntradayPlan
    \/ CallCostModel

SpecPlan == InitPlan /\ [][NextPlan]_vars

(***************************************************************************)
(* The quality list of the swing scan (src/routes/swing.js)                *)
(***************************************************************************)
\* A JavaScript value met as a qualityScore: a finite number n, or one of the
\* values that are not a finite number.
Num(n) == [kind |-> "number", n |-> n]
JsNull == [kind |-> "null", n |-> 0]
JsUndefined == [kind |-> "undefined", n |-> 0]
JsNaN == [kind |-> "NaN", n |-> 0]
JsInfinity == [kind |-> "Infinity", n |-> 0]

\* toFinite: Number(value) when it is finite, else null; Number(null) is 0.
toFinite(value) ==
    CASE value.kind = "number" -> value
      [] value.kind = "null" -> Num(0)
      [] OTHER -> JsNull

RECURSIVE insertAscending(_, _)
insertAscending(sorted, x) ==
    IF sorted = <<>> THEN <<x>>
    ELSE IF x < Head(sorted) THEN <<x>> \o sorted
    ELSE <<Head(sorted)>> \o insertAscending(Tail(sorted), x)

\* Array.prototype.sort((a, b) => a - b)
RECURSIVE sortAscending(_)
sortAscending(seq) ==
    IF seq = <<>> THEN <<>>
    ELSE insertAscending(sortAscending(SubSeq(seq, 1, Len(seq) - 1)), seq[Len(seq)])

isNotNull(value) == value.kind # "null"

\* The finite scores of the candidates, ascending
finiteScores(scoredCandidates) ==
    LET finite == SelectSeq([i \in 1..Len(scoredCandidates) |->
                                toFinite(scoredCandidates[i].qualityScore)],
                            isNotNull)
    IN  sortAscending([i \in 1..Len(finite) |-> finite[i].n])

\* Mutant: the raw mix of the percentiles is returned without the clamp.
deriveAdaptiveQualityThreshold_Unclamped(scoredCandidates) ==
    IF finiteScores(scoredCandidates) = <<>> THEN 40
    ELSE LET scores == finiteScores(scoredCandidates)
         IN  (6 * scores[((Len(scores) - 1) * 6) \div 10 + 1]
                + 4 * scores[((Len(scores) - 1) * 5) \div 10 + 1] + 5) \div 10

\* deriveAdaptiveQualityThreshold; Math.round is the floor of the value plus a
\* half.
deriveAdaptiveQualityThreshold(scoredCandidates) ==
    IF Len(scoredCandidates) = 0 THEN 40
    ELSE LET scores == finiteScores(scoredCandidates)
             p60    == scores[((Len(scores) - 1) * 6) \div 10 + 1]
             median == scores[((Len(scores) - 1) * 5) \div 10 + 1]
             raw    == (6 * p60 + 4 * median + 5) \div 10
         IN  IF scores = <<>> THEN 40
             ELSE Min(Max(raw, 34), 56)

\* riskRewardAfterCosts ?? riskReward of a stock, in hundredths; NULL is a
\* value toFinite turns into null.
netRiskReward(stock) == Coalesce(stock.riskRewardAfterCosts, stock.riskReward)

\* computeSwingQualityScore: RSI in points, the gap and the volatility in
\* thousandths of a percent, NULL for a missing value.
computeSwingQualityScore(stock) ==
    LET rr == Coalesce(netRiskReward(stock), 0)
        aboveStructure == /\ stock.currentPrice # NULL
                          /\ stock.swingVwap # NULL
                          /\ stock.currentPrice >= stock.swingVwap
        byLabel == CASE stock.label = "High-Quality Swing Setup" -> 30
                     [] stock.label = "Breakout Swing Setup" -> 26
                     [] stock.label = "Support-Based Swing Attempt" -> 22
                     [] stock.label = "Potential Swing - Needs Confirmation" -> 18
                     [] stock.label = "Consolidation Watch" -> 15
                     [] OTHER -> 0
        byType == CASE stock.entryType = "swing_vwap" -> 15
                    [] stock.entryType = "swing_breakout" -> 13
                    [] stock.entryType = "swing_support" -> 12
                    [] stock.entryType = "swing_consolidation" -> 8
                    [] stock.entryType = "swing_momentum" -> 6
                    [] stock.entryType = "swing_market" -> 2
                    [] OTHER -> 0
        byRR == IF rr >= 200 THEN 22
                ELSE IF rr >= 170 THEN 18
                ELSE IF rr >= 150 THEN 14
                ELSE IF rr >= 130 THEN 10
                ELSE IF rr >= 110 THEN 6
                ELSE IF rr >= 100 THEN 3
                ELSE 0 - 20
        byRSI == IF stock.rsi = NULL THEN 0
                 ELSE IF stock.rsi >= 45 /\ stock.rsi <= 62 THEN 8
                 ELSE IF stock.rsi >= 40 /\ stock.rsi <= 66 THEN 4
                 ELSE IF stock.rsi < 35 \/ stock.rsi > 70 THEN 0 - 5
                 ELSE 0
        byGap == IF stock.gapNowPct = NULL THEN 0
                 ELSE IF stock.gapNowPct < 0 - 2000 THEN 0 - 18
                 ELSE IF stock.gapNowPct > 7000 THEN 0 - 5
                 ELSE IF stock.gapNowPct >= 0 - 500 /\ stock.gapNowPct <= 5500 THEN 4
                 ELSE 0
        byVolatility == IF stock.volatilityPct = NULL THEN 0
                        ELSE IF stock.volatilityPct > 6200 THEN 0 - 6
                        ELSE IF stock.volatilityPct >= 2000 /\ stock.volatilityPct <= 4800
                          THEN 3
                        ELSE 0
    IN  byLabel + byType + byRR + (IF stock.volumeSpike THEN 8 ELSE 3)
          + (IF aboveStructure THEN 6 ELSE 0) + byRSI + byGap + byVolatility

\* Lines 295-300: the results that enter the quality list
isPositiveResult(stock) ==
    /\ ~stock.error
    /\ ~stock.filtered
    /\ stock.sentiment = "positive"

withQualityScore(stock) ==
    [symbol |-> stock.symbol, entryType |-> stock.entryType,
     riskRewardAfterCosts |-> stock.riskRewardAfterCosts,
     riskReward |-> stock.riskReward,
     rsi |-> stock.rsi, gapNowPct |-> stock.gapNowPct, volumeSpike |-> stock.volumeSpike,
     qualityScore |-> Num(computeSwingQualityScore(stock))]

\* Mutant: the floor on the net risk-reward is left out.
passesRiskRewardFloor_NoFloor(stock) ==
    /\ netRiskReward(stock) # NULL
    /\ stock.entryType = "swing_market"
         => /\ stock.volumeSpike
            /\ stock.rsi = NULL \/ (stock.rsi >= 38 /\ stock.rsi <= 64)
            /\ stock.gapNowPct = NULL \/ stock.gapNowPct >= 0 - 1800

\* Lines 305-316: the floor on the net risk-reward and the swing_market rules
passesRiskRewardFloor(stock) ==
    /\ netRiskReward(stock) # NULL
    /\ netRiskReward(stock) >= 100
    /\ stock.entryType = "swing_market"
         => /\ stock.volumeSpike
            /\ stock.rsi = NULL \/ (stock.rsi >= 38 /\ stock.rsi <= 64)
            /\ stock.gapNowPct = NULL \/ stock.gapNowPct >= 0 - 1800

\* The comparator of lines 324-327: a sorts before b.
qualitySortsBefore(a, b) ==
    IF b.qualityScore.n # a.qualityScore.n THEN b.qualityScore.n < a.qualityScore.n
    ELSE Coalesce(netRiskReward(b), 0) < Coalesce(netRiskReward(a), 0)

RECURSIVE insertByQuality(_, _)
insertByQuality(sorted, x) ==
    IF sorted = <<>> THEN <<x>>
    ELSE IF qualitySortsBefore(x, Head(sorted)) THEN <<x>> \o sorted
    ELSE <<Head(sorted)>> \o insertByQuality(Tail(sorted), x)

\* Array.prototype.sort with the comparator of lines 324-327 (a stable sort)
RECURSIVE sortByQuality(_)
sortByQuality(seq) ==
    IF seq = <<>> THEN <<>>
    ELSE insertByQuality(sortByQuality(SubSeq(seq, 1, Len(seq) - 1)), seq[Len(seq)])

\* The candidates of lines 294-317
qualityBase(results) ==
    LET positive == SelectSeq(results, isPositiveResult)
        scored   == [i \in 1..Len(positive) |-> withQualityScore(positive[i])]
    IN  SelectSeq(scored, passesRiskRewardFloor)

\* buildQualitySwingList
buildQualitySwingList(results) ==
    LET base      == qualityBase(results)
        threshold == deriveAdaptiveQualityThreshold(base)
        atOrAbove(stock) == stock.qualityScore.n >= threshold
    IN  [returned |-> TRUE,
         qualityThreshold |-> threshold,
         stocks |-> sortByQuality(SelectSeq(base, atOrAbove))]

(***************************************************************************)
(* Calls of the quality-list functions (SpecQuality)                       *)
(***************************************************************************)
MaxBatch == 3

\* The sequences over a set, up to a length
SeqsUpTo(S, n) == UNION {[1..k -> S] : k \in 0..n}

ScoreValues ==
    {Num(0 - 25), Num(20), Num(41), Num(57), Num(90), JsNull, JsUndefined, JsNaN, JsInfinity}

ThresholdInputs ==
    {[fn |-> "deriveAdaptiveQualityThreshold",
      scoredCandidates |-> [i \in 1..Len(scores) |-> [qualityScore |-> scores[i]]]] :
        scores \in SeqsUpTo(ScoreValues, MaxBatch)}

\* A result of the swing scan with a strong setup (score 92)
StrongStock ==
    [symbol |-> "A", error |-> FALSE, filtered |-> FALSE, sentiment |-> "positive",
     label |-> "High-Quality Swing Setup", entryType |-> "swing_vwap",
     riskRewardAfterCosts |-> 180, riskReward |-> 180, rsi |-> 55, gapNowPct |-> 1000,
     volatilityPct |-> 3000, volumeSpike |-> TRUE, currentPrice |-> 10000,
     swingVwap |-> 9900]

\* A result with a weak setup
WeakStock ==
    [StrongStock EXCEPT !.symbol = "C", !.label = "Consolidation Watch",
                        !.entryType = "swing_consolidation", !.volumeSpike = FALSE,
                        !.riskRewardAfterCosts = 105, !.riskReward = 105]

ScanResults ==
    {StrongStock,
     [StrongStock EXCEPT !.symbol = "B", !.riskRewardAfterCosts = 170],
     [StrongStock EXCEPT !.symbol = "B", !.riskRewardAfterCosts = 90],
     [StrongStock EXCEPT !.symbol = "B", !.riskRewardAfterCosts = NULL, !.riskReward = 210],
     [StrongStock EXCEPT !.symbol = "B", !.riskRewardAfterCosts = NULL, !.riskReward = NULL],
     [StrongStock EXCEPT !.symbol = "B", !.error = TRUE],
     [StrongStock EXCEPT !.symbol = "B", !.sentiment = "neutral"],
     WeakStock,
     [WeakStock EXCEPT !.symbol = "D", !.riskRewardAfterCosts = 100],
     [WeakStock EXCEPT !.rsi = 72, !.gapNowPct = 0 - 2500],
     [WeakStock EXCEPT !.riskRewardAfterCosts = 135, !.gapNowPct = 6000],
     [WeakStock EXCEPT !.entryType = "swing_market", !.volumeSpike = TRUE],
     [WeakStock EXCEPT !.entryType = "swing_market"]}

QualityListInputs ==
    {[fn |-> "buildQualitySwingList", results |-> results] :
        results \in SeqsUpTo(ScanResults, MaxBatch)}

InitQuality ==
    /\ ServiceIdle
    /\ input \in ThresholdInputs \cup QualityListInputs
    /\ output = NoOutput

CallDeriveThreshold ==
    /\ input.fn = "deriveAdaptiveQualityThreshold"
    /\ ~output.returned
    /\ output' = [returned |-> TRUE,
                  threshold |-> deriveAdaptiveQualityThreshold(input.scoredCandidates)]
    /\ UNCHANGED <<btVars, storeVars, saveVars, runVars, input, scanVars>>

CallBuildQualityList ==
    /\ input.fn = "buildQualitySwingList"
    /\ ~output.returned
    /\ output' = buildQualitySwingList(input.results)
    /\ UNCHANGED <<btVars, storeVars, saveVars, runVars, input, scanVars>>

NextQuality ==
    \/ CallDeriveThreshold
    \/ CallBuildQualityList

SpecQuality == InitQuality /\ [][NextQuality]_vars

(***************************************************************************)
(* The rule cascades of the evaluators (src/unnamed/part_005)              *)
(***************************************************************************)
\* Prices in paise, RSI in points, gaps in thousandths of a percent, the
\* market capitalisation in crore rupees; NULL is undefined, with which every
\* comparison is false.

\* getBreakoutConfirmation
getBreakoutConfirmation(resistance, price, volumeSpike) ==
    /\ resistance # NULL
    /\ resistance # 0
    /\ price # NULL
    /\ price * 1000 > resistance * 1002
    /\ volumeSpike

between(value, low, high) == value # NULL /\ value >= low /\ value <= high

\* A value that is truthy in JavaScript
truthy(value) == (value.kind = "number" /\ value.n # 0) \/ value.kind = "Infinity"

\* The global isFinite(value): Number(null) is 0.
isFinite(value) == value.kind \in {"number", "null"}

\* Mutant: only an undefined swingVWAP is taken as missing.
structureMissing_OnlyUndefined(swingVWAP) == swingVWAP.kind = "undefined"

\* Line 23: !swingVWAP || !isFinite(swingVWAP)
structureMissing(swingVWAP) == ~truthy(swingVWAP) \/ ~isFinite(swingVWAP)

verdict(label, sentiment) == [returned |-> TRUE, label |-> label, sentiment |-> sentiment]

\* evaluateSwing; swingVWAP is a JavaScript value, a number in paise.
evaluateSwing(args) ==
    LET rsi               == args.rsi
        price             == args.price
        swingVWAP         == args.swingVWAP.n
        aboveStructure    == price # NULL /\ price > swingVWAP
        breakoutConfirmed == getBreakoutConfirmation(args.resistance, price,
                                                     args.volumeSpike)
        nearSupport       == /\ args.support # NULL
                             /\ args.support # 0
                             /\ price # NULL
                             /\ price * 100 <= args.support * 105
        volumeOK          == args.volumeSpike \/ (aboveStructure /\ rsi # NULL /\ rsi > 50)
        effectiveGap      == IF args.gapNowPct # NULL THEN args.gapNowPct
                             ELSE Coalesce(args.gapOpenPct, 0)
        isLargeGap        == Abs(effectiveGap) >= 2500
    IN  IF structureMissing(args.swingVWAP)
          THEN verdict("Insufficient Structure Data", "neutral")
        ELSE IF effectiveGap <= 0 - 4000
          THEN verdict("Capitulation Gap Risk - Avoid Swing", "negative")
        ELSE IF effectiveGap <= 0 - 2800 /\ ~nearSupport
          THEN verdict("Sharp Gap Down - Structure Weak", "negative")
        ELSE IF ~aboveStructure /\ rsi # NULL /\ rsi < 40 /\ effectiveGap <= 0 - 1500
          THEN verdict("Weak Structure - Avoid Swing", "negative")
        ELSE IF isLargeGap /\ effectiveGap < 0 /\ ~args.volumeSpike
          THEN verdict("Large Gap - Avoid Swing", "negative")
        ELSE IF /\ between(rsi, 45, 65)
                /\ effectiveGap >= 0 - 1000
                /\ effectiveGap <= 5500
                /\ volumeOK
                /\ aboveStructure
                /\ ~breakoutConfirmed
          THEN verdict("High-Quality Swing Setup", "positive")
        ELSE IF /\ between(rsi, 35, 49)
                /\ effectiveGap > 0 - 2200
                /\ (aboveStructure \/ nearSupport)
                /\ volumeOK
                /\ ~breakoutConfirmed
          THEN verdict("Potential Swing - Needs Confirmation", "positive")
        ELSE IF /\ between(rsi, 30, 55)
                /\ effectiveGap > 0 - 2800
                /\ nearSupport
                /\ (aboveStructure \/ args.volumeSpike)
          THEN verdict("Support-Based Swing Attempt", "positive")
        ELSE IF /\ between(rsi, 45, 68)
                /\ breakoutConfirmed
                /\ effectiveGap > 0 - 1500
                /\ effectiveGap <= 5000
          THEN verdict("Breakout Swing Setup", "positive")
        ELSE IF /\ between(rsi, 40, 60)
                /\ Abs(effectiveGap) <= 1500
                /\ ~breakoutConfirmed
                /\ ~nearSupport
          THEN verdict("Consolidation Watch", "positive")
        ELSE IF rsi # NULL /\ rsi > 75
          THEN verdict("Late Move - Avoid Fresh Entry", "negative")
        ELSE IF effectiveGap < 0 - 2000
          THEN verdict("High Gap Risk - Avoid Swing Trade", "negative")
        ELSE verdict("No Swing Opportunity", "negative")

\* Lines 1069-1074: the chop-day filter of evaluateIntraday
choppyMarketAt(args, effectiveGap) ==
    /\ Abs(effectiveGap) < 200
    /\ ~args.volumeSpike
    /\ valid(args.vwap)
    /\ args.price # NULL
    /\ Abs(args.price - args.vwap) * 1000 < 2 * args.vwap

\* Line 1084: !marketCap || marketCap < 1e10
lowLiquidity(marketCap) == marketCap = NULL \/ marketCap = 0 \/ marketCap < 1000

\* The rules of evaluateIntraday (from line 1079) for an effective gap.
intradayVerdict(args, effectiveGap) ==
    LET rsi               == args.rsi
        price             == args.price
        hasVwap           == valid(args.vwap)
        aboveVWAP         == hasVwap /\ price # NULL /\ price > args.vwap
        belowVWAP         == hasVwap /\ price # NULL /\ price < args.vwap
        breakoutConfirmed == getBreakoutConfirmation(args.resistance, price,
                                                     args.volumeSpike)
        nearSupport       == /\ args.support # NULL
                             /\ args.support # 0
                             /\ price # NULL
                             /\ price * 100 <= args.support * 102
        volumeOK          == args.volumeSpike \/ (aboveVWAP /\ rsi # NULL /\ rsi > 50)
    IN  IF choppyMarketAt(args, effectiveGap)
          THEN verdict("Choppy Market - Avoid", "neutral")
        ELSE IF lowLiquidity(args.marketCap)
          THEN verdict("Low Liquidity - Avoid", "negative")
        ELSE IF /\ between(rsi, 40, 65)
                /\ effectiveGap >= 200
                /\ effectiveGap < 3500
                /\ volumeOK
                /\ aboveVWAP
                /\ ~breakoutConfirmed
          THEN verdict("Strong Intraday Buy", "positive")
        ELSE IF between(rsi, 45, 65) /\ aboveVWAP /\ effectiveGap >= 0 - 200
          THEN verdict("Momentum Continuation", "positive")
        ELSE IF between(rsi, 66, 70) /\ args.volumeSpike /\ aboveVWAP
          THEN verdict("Stretch Zone - Scalp Only", "positive")
        ELSE IF breakoutConfirmed /\ between(rsi, 50, 70)
          THEN verdict("Breakout Candidate", "positive")
        ELSE IF between(rsi, 45, 70) /\ aboveVWAP /\ effectiveGap >= 0 - 300
          THEN verdict("Moderate Momentum - Watch", "positive")
        ELSE IF /\ between(rsi, 40, 60)
                /\ Abs(effectiveGap) <= 500
                /\ ~breakoutConfirmed
                /\ ~nearSupport
          THEN verdict("Consolidation Watch", "positive")
        ELSE IF rsi # NULL /\ rsi > 70
          THEN verdict("Overbought - Avoid Fresh Entry", "negative")
        ELSE IF belowVWAP /\ args.candleColor = "red" /\ effectiveGap < 0 - 500
          THEN verdict("Bearish Momentum - Avoid", "negative")
        ELSE verdict("No Clear Intraday Signal", "neutral")

\* Line 1077: gapNowPct ?? gapOpenPct ?? 0
nullishGap(args) ==
    IF args.gapNowPct # NULL THEN args.gapNowPct ELSE Coalesce(args.gapOpenPct, 0)

choppyMarket(args) == choppyMarketAt(args, nullishGap(args))

\* evaluateIntraday
evaluateIntraday(args) == intradayVerdict(args, nullishGap(args))

\* services/positionEvaluator.js line 751: gapNowPct || gapOpenPct, a zero
\* gapNowPct is falsy; a null gapOpenPct compares as 0.
falsyGap(args) ==
    IF args.gapNowPct # NULL /\ args.gapNowPct # 0 THEN args.gapNowPct
    ELSE Coalesce(args.gapOpenPct, 0)

\* evaluateIntraday of services/positionEvaluator.js, for a finite positive vwap
\* (it has no hasVwap test; its rules are the same from there on).
positionEvaluator_evaluateIntraday(args) == intradayVerdict(args, falsyGap(args))

(***************************************************************************)
(* Calls of the evaluators (SpecVerdict)                                   *)
(***************************************************************************)
SwingVWAPs == {JsUndefined, JsNull, JsNaN, JsInfinity, Num(0), Num(9900), Num(10100)}

VerdictRSIs == {NULL, 30, 48, 55, 68, 80}

EvaluateSwingInputs ==
    {[fn |-> "evaluateSwing", rsi |-> rsi, gapOpenPct |-> gapOpen, gapNowPct |-> gapNow,
      volumeSpike |-> spike, price |-> 10000, swingVWAP |-> swingVWAP,
      support |-> support, resistance |-> resistance] :
        rsi \in VerdictRSIs, gapOpen \in {NULL, 1000},
        gapNow \in {NULL, 0 - 4500, 0 - 3000, 0 - 1700, 0, 3000},
        spike \in BOOLEAN, swingVWAP \in SwingVWAPs, support \in {NULL, 9800},
        resistance \in {NULL, 9900, 10500}}

\* Market capitalisations in crore rupees: missing, zero, below, at and above
\* Rs 1000 Cr
MarketCaps == {NULL, 0, 500, 1000, 5000}

EvaluateIntradayInputs ==
    {[fn |-> "evaluateIntraday", rsi |-> rsi, gapOpenPct |-> gapOpen, gapNowPct |-> gapNow,
      volumeSpike |-> spike, price |-> 10000, vwap |-> vwap, support |-> support,
      resistance |-> resistance, candleColor |-> color, marketCap |-> marketCap] :
        rsi \in VerdictRSIs, gapOpen \in {NULL, 1000},
        gapNow \in {NULL, 0 - 1000, 0 - 300, 100, 1000, 4000},
        spike \in BOOLEAN, vwap \in {NULL, 9900, 9990, 10100}, support \in {NULL, 9900},
        resistance \in {NULL, 9900, 10500}, color \in {"green", "red"},
        marketCap \in MarketCaps}

InitVerdict ==
    /\ ServiceIdle
    /\ input \in EvaluateSwingInputs \cup EvaluateIntradayInputs
    /\ output = NoOutput

CallEvaluateSwing ==
    /\ input.fn = "evaluateSwing"
    /\ ~output.returned
    /\ output' = evaluateSwing(input)
    /\ UNCHANGED <<btVars, storeVars, saveVars, runVars, input, scanVars>>

CallEvaluateIntraday ==
    /\ input.fn = "evaluateIntraday"
    /\ ~output.returned
    /\ output' = evaluateIntraday(input)
    /\ UNCHANGED <<btVars, storeVars, saveVars, runVars, input, scanVars>>

NextVerdict ==
    \/ CallEvaluateSwing
    \/ CallEvaluateIntraday

SpecVerdict == InitVerdict /\ [][NextVerdict]_vars

(***************************************************************************)
(* Calls of the evaluators with both gaps given (SpecGap)                  *)
(***************************************************************************)
\* Gaps in thousandths of a percent; NULL is a missing value.
OpenGaps == {NULL, 0 - 1000, 0, 1000}
NowGaps == {NULL, 0 - 300, 0, 1000}

GapIntradayInputs ==
    {[fn |-> fn, rsi |-> rsi, gapOpenPct |-> gapOpen, gapNowPct |-> gapNow,
      volumeSpike |-> spike, price |-> 10000, vwap |-> vwap, support |-> NULL,
      resistance |-> resistance, candleColor |-> color, marketCap |-> 5000] :
        fn \in {"evaluateIntraday", "positionEvaluator.evaluateIntraday"},
        rsi \in {48, 55, 68}, gapOpen \in OpenGaps, gapNow \in NowGaps,
        spike \in BOOLEAN, vwap \in {9900, 9990}, resistance \in {NULL, 10500},
        color \in {"green", "red"}}

GapSwingInputs ==
    {[fn |-> "evaluateSwing", rsi |-> rsi, gapOpenPct |-> gapOpen, gapNowPct |-> gapNow,
      volumeSpike |-> spike, price |-> 10000, swingVWAP |-> Num(9900),
      support |-> NULL, resistance |-> 10500] :
        rsi \in {30, 55}, gapOpen \in {NULL, 0 - 4500, 1000},
        gapNow \in {NULL, 0 - 4500, 0}, spike \in BOOLEAN}

InitGap ==
    /\ ServiceIdle
    /\ input \in GapIntradayInputs \cup GapSwingInputs
    /\ output = NoOutput

CallPositionEvaluatorIntraday ==
    /\ input.fn = "positionEvaluator.evaluateIntraday"
    /\ ~output.returned
    /\ output' = positionEvaluator_evaluateIntraday(input)
    /\ UNCHANGED <<btVars, storeVars, saveVars, runVars, input, scanVars>>

NextGap ==
    \/ CallEvaluateSwing
    \/ CallEvaluateIntraday
    \/ CallPositionEvaluatorIntraday

SpecGap == InitGap /\ [][NextGap]_vars

(***************************************************************************)
(* deepScanSymbol: the verdict and the entry plan of one symbol (SpecDeep) *)
(***************************************************************************)
\* The two calls deepScanSymbol makes with the same market context (routes/
\* intraday.js lines 141-151), and the fields of the result they fill.
deepScanResult(context) ==
    [returned |-> TRUE,
     intradayView |-> evaluateIntraday(context),
     entryPriceData |-> calculateIntradayEntryPrice(context)]

\* The market context of one symbol: price and levels in paise, RSI in points,
\* gaps and volatility in thousandths of a percent, market cap in crore.
DeepScanContexts ==
    {[fn |-> "deepScanSymbol", price |-> 10000, vwap |-> vwap, support |-> support,
      resistance |-> resistance, rsi |-> rsi, candleColor |-> color,
      gapOpenPct |-> gapOpen, gapNowPct |-> gapNow, volumeSpike |-> spike,
      volatilityPct |-> vol, marketCap |-> marketCap] :
        vwap \in {9000, 9950, 10200}, support \in {NULL, 9800},
        resistance \in {NULL, 10500}, rsi \in {55, 66, 70}, color \in {"green", "red"},
        gapOpen \in {NULL, 1000}, gapNow \in {NULL, 0}, spike \in BOOLEAN,
        vol \in {NULL, 800, 2500}, marketCap \in {500, 5000}}

InitDeep ==
    /\ ServiceIdle
    /\ input \in DeepScanContexts
    /\ output = NoOutput

DeepScanSymbol ==
    /\ input.fn = "deepScanSymbol"
    /\ ~output.returned
    /\ output' = deepScanResult(input)
    /\ UNCHANGED <<btVars, storeVars, saveVars, runVars, input, scanVars>>

NextDeep == DeepScanSymbol

SpecDeep == InitDeep /\ [][NextDeep]_vars

(***************************************************************************)
(* computeRSI (src/services/rsiCalculator.js)                              *)
(***************************************************************************)
\* gains[i] and losses[i] of lines 5-9, for i in 1..Len(closes) - 1
gainAt(closes, i) == Max(0, closes[i + 1] - closes[i])
lossAt(closes, i) == Max(0, closes[i] - closes[i + 1])

\* Wilder's smoothing of lines 11-18 over the first n changes, as the
\* numerators of avgGain and avgLoss over the common denominator den.
RECURSIVE smoothed(_, _, _)
smoothed(closes, period, n) ==
    IF n = period
      THEN [gain |-> sumOf([i \in 1..period |-> [v |-> gainAt(closes, i)]], "v"),
            loss |-> sumOf([i \in 1..period |-> [v |-> lossAt(closes, i)]], "v"),
            den |-> period]
      ELSE LET prev == smoothed(closes, period, n - 1)
           IN  [gain |-> prev.gain * (period - 1) + gainAt(closes, n) * prev.den,
                loss |-> prev.loss * (period - 1) + lossAt(closes, n) * prev.den,
                den |-> prev.den * period]

\* Math.round(rsi * 10) of 100 - 100 / (1 + rs), in tenths of a point
rsiTenths(rsNum, rsDen) ==
    (2 * 1000 * rsNum + (rsNum + rsDen)) \div (2 * (rsNum + rsDen))

\* computeRSI, in tenths of a point; NULL for null
computeRSI(closes, period) ==
    IF Len(closes) <= period THEN NULL
    ELSE LET avg == smoothed(closes, period, Len(closes) - 1)
         IN  IF avg.loss = 0 THEN rsiTenths(100, 1)
             ELSE rsiTenths(avg.gain, avg.loss)

(***************************************************************************)
(* Calls of computeRSI (SpecRSI)                                           *)
(***************************************************************************)
MaxCloses == 4

ClosePrices == {100, 102, 105, 109}

Periods == {2, 3}

RSIInputs ==
    {[fn |-> "computeRSI", closes |-> closes, period |-> period] :
        closes \in SeqsUpTo(ClosePrices, MaxCloses), period \in Periods}

InitRSI ==
    /\ ServiceIdle
    /\ input \in RSIInputs
    /\ output = NoOutput

CallComputeRSI ==
    /\ input.fn = "computeRSI"
    /\ ~output.returned
    /\ output' = [returned |-> TRUE, rsi |-> computeRSI(input.closes, input.period)]
    /\ UNCHANGED <<btVars, storeVars, saveVars, runVars, input, scanVars>>

NextRSI == CallComputeRSI

SpecRSI == InitRSI /\ [][NextRSI]_vars

(***************************************************************************)
(* The scan workflows (src/routes/intraday.js, src/routes/swing.js)        *)
(***************************************************************************)
\* The concurrency startIntradayBackgroundScan and the swing background scan
\* pass to mapWithConcurrency
WorkerBound == 3

MaxSymbols == 4
MaxScans == 1

ScanKinds == {"intraday_background", "swing_background", "intraday_direct", "swing_direct"}

isBackground(kind) == kind \in {"intraday_background", "swing_background"}

isIntraday(kind) == kind \in {"intraday_background", "intraday_direct"}

\* The symbols a scan is asked for: the first n of a repeating list
ScanSymbolAt(k) == <<"A", "B", "C", "X">>[((k - 1) % 4) + 1]

ScanItems(n) == [k \in 1..n |-> ScanSymbolAt(k)]

\* The pick a positive scan result of a symbol becomes
PickOf(symbol) ==
    CASE symbol = "A" -> PickA
      [] symbol = "B" -> PickB
      [] symbol = "C" -> PickC
      [] OTHER -> PickX

\* The symbols whose market data is being fetched
inFlight == {k \in 1..Len(slots) : slots[k].state = "fetching"}

\* The symbols started together: a batch of mapWithConcurrency in a background
\* scan, all of them in Promise.all(symbolsToScan.map(...)) of a direct scan.
batchSize(kind, n) == IF isBackground(kind) THEN WorkerBound ELSE n

batchOf(start) ==
    {k \in 1..Len(scanItems) :
        k >= start /\ k < start + batchSize(scanKind, Len(scanItems))}

\* What the per-symbol function resolves to: its catch block returns
\* { symbol, error } when a fetch throws.
resultOf(slot) ==
    [symbol |-> slot.symbol, error |-> slot.state = "failed",
     positive |-> slot.state = "done" /\ slot.positive]

resultsOf(start) ==
    [k \in 1..Cardinality(batchOf(start)) |-> resultOf(slots[start + k - 1])]

\* The picks of the positive results, in scan order
RECURSIVE positiveStocksOf(_)
positiveStocksOf(results) ==
    IF results = <<>> THEN <<>>
    ELSE LET rest == positiveStocksOf(Tail(results))
         IN  IF ~Head(results).error /\ Head(results).positive
               THEN <<PickOf(Head(results).symbol)>> \o rest
               ELSE rest

\* startIntradayBackgroundScan and the swing one up to their first await, and
\* the POST routes up to the symbols to scan.
StartScan(kind, n) ==
    /\ scanStatus # "running"
    /\ scanCount < MaxScans
    /\ scanCount' = scanCount + 1
    /\ scanKind' = kind
    /\ scanStatus' = "running"
    /\ scanItems' = ScanItems(n)
    /\ batchStart' = 1
    /\ slots' = [k \in 1..n |-> [symbol |-> ScanSymbolAt(k), state |-> "waiting",
                                 positive |-> FALSE]]
    /\ scanResults' = <<>>
    /\ scansInFlight' = IF kind = "intraday_background" THEN scansInFlight + 1
                        ELSE scansInFlight
    /\ UNCHANGED <<btVars, storeVars, saveVars, runVars, fnVars, intradayCache>>

\* The first batch.map(item => fn(item)) of mapWithConcurrency, or the
\* symbolsToScan.map of a direct scan: every symbol of the batch starts
\* fetching.
BeginFetching ==
    /\ scanStatus = "running"
    /\ slots # <<>>
    /\ \A k \in 1..Len(slots) : slots[k].state = "waiting"
    /\ slots' = [k \in 1..Len(slots) |->
                    IF k \in batchOf(batchStart)
                      THEN [slots[k] EXCEPT !.state = "fetching"]
                      ELSE slots[k]]
    /\ UNCHANGED <<btVars, storeVars, saveVars, runVars, fnVars, scanKind, scanStatus,
                   scanItems, batchStart, scanResults, scanCount, cacheVars>>

\* The fetches of symbol k return and the symbol is analysed.
SymbolScanned(k, positive) ==
    /\ scanStatus = "running"
    /\ k \in inFlight
    /\ slots' = [slots EXCEPT ![k].state = "done", ![k].positive = positive]
    /\ UNCHANGED <<btVars, storeVars, saveVars, runVars, fnVars, scanKind, scanStatus,
                   scanItems, batchStart, scanResults, scanCount, cacheVars>>

\* A fetch of symbol k throws.
SymbolFetchFails(k) ==
    /\ scanStatus = "running"
    /\ k \in inFlight
    /\ slots' = [slots EXCEPT ![k].state = "failed"]
    /\ UNCHANGED <<btVars, storeVars, saveVars, runVars, fnVars, scanKind, scanStatus,
                   scanItems, batchStart, scanResults, scanCount, cacheVars>>

batchSettled ==
    /\ batchOf(batchStart) # {}
    /\ \A k \in batchOf(batchStart) : slots[k].state \in {"done", "failed"}

moreBatches == batchStart + batchSize(scanKind, Len(scanItems)) <= Len(scanItems)

\* mapWithConcurrency after a batch's Promise.all: the results are pushed and
\* the next batch starts.
NextBatch ==
    /\ scanStatus = "running"
    /\ batchSettled
    /\ moreBatches
    /\ scanResults' = scanResults \o resultsOf(batchStart)
    /\ batchStart' = batchStart + batchSize(scanKind, Len(scanItems))
    /\ slots' = [k \in 1..Len(slots) |->
                    IF k \in batchOf(batchStart + batchSize(scanKind, Len(scanItems)))
                      THEN [slots[k] EXCEPT !.state = "fetching"]
                      ELSE slots[k]]
    /\ UNCHANGED <<btVars, storeVars, saveVars, runVars, fnVars, scanKind, scanStatus,
                   scanItems, scanCount, cacheVars>>

\* The scan after its last Promise.all: the results are complete; an intraday
\* scan saves the snapshot of its positive stocks.
FinishScan ==
    /\ scanStatus = "running"
    /\ batchSettled
    /\ ~moreBatches
    /\ scanResults' = scanResults \o resultsOf(batchStart)
    /\ scanStatus' = "done"
    /\ IF isIntraday(scanKind)
         THEN /\ SnapshotSaved(positiveStocksOf(scanResults \o resultsOf(batchStart)),
                               "2026-01-05", SESSION_OPEN_MIN + 5)
              /\ UNCHANGED mongoConnected
         ELSE UNCHANGED <<storeVars, saveVars>>
    /\ IF scanKind = "intraday_background"
         THEN /\ intradayCache' =
                    [results |-> positiveStocksOf(scanResults \o resultsOf(batchStart)),
                     error |-> intradayCache.error]
              /\ scansInFlight' = scansInFlight - 1
         ELSE UNCHANGED cacheVars
    /\ UNCHANGED <<btVars, runVars, fnVars, scanKind, scanItems, batchStart, slots,
                   scanCount>>

InitScan ==
    /\ ScanIdle
    /\ FnIdle
    /\ StoresEmpty
    /\ mongoConnected \in BOOLEAN
    /\ PickIdle
    /\ RunsIdle
    /\ market = [sym \in Symbols |-> <<>>]

NextScan ==
    \/ \E kind \in ScanKinds, n \in 1..MaxSymbols : StartScan(kind, n)
    \/ BeginFetching
    \/ \E k \in 1..MaxSymbols, positive \in BOOLEAN : SymbolScanned(k, positive)
    \/ \E k \in 1..MaxSymbols : SymbolFetchFails(k)
    \/ NextBatch
    \/ FinishScan

SpecScan == InitScan /\ [][NextScan]_vars

(***************************************************************************)
(* The intraday background scan and its cache (SpecCache)                  *)
(* src/routes/intraday.js lines 62-67, 178-247                             *)
(***************************************************************************)
MaxBackgroundScans == 2

\* startIntradayBackgroundScan past its first line, up to the await of
\* fastMarketScan: the status is 'running' and the error is cleared.
backgroundScanBegins ==
    /\ scanCount < MaxBackgroundScans
    /\ scanCount' = scanCount + 1
    /\ scansInFlight' = scansInFlight + 1
    /\ scanKind' = "intraday_background"
    /\ scanStatus' = "running"
    /\ intradayCache' = [intradayCache EXCEPT !.error = FALSE]
    /\ scanItems' = <<>>
    /\ batchStart' = 1
    /\ slots' = <<>>
    /\ scanResults' = <<>>

\* The same function without its first line
startIntradayBackgroundScan_NoGuard == backgroundScanBegins

\* startIntradayBackgroundScan up to its first await: `if (intradayCache.status
\* === 'running') return;`, then the scan begins.
startIntradayBackgroundScan ==
    IF scanStatus = "running" THEN UNCHANGED scanVars ELSE backgroundScanBegins

\* POST /scan/intraday/start: a closed market without forceRunWhenClosed is
\* answered market_closed; otherwise the scan is started without being awaited
\* and the answer is scan_started. `found` keeps the status the request found.
PostIntradayStart(isOpen, forceRunWhenClosed) ==
    /\ IF ~isOpen /\ ~forceRunWhenClosed
         THEN /\ output' = [returned |-> TRUE, status |-> "market_closed",
                            found |-> scanStatus]
              /\ UNCHANGED scanVars
         ELSE /\ startIntradayBackgroundScan
              /\ output' = [returned |-> TRUE, status |-> "scan_started",
                            found |-> scanStatus]
    /\ UNCHANGED <<btVars, storeVars, saveVars, runVars, input>>

awaitingFastMarketScan ==
    /\ scanStatus = "running"
    /\ scanKind = "intraday_background"
    /\ scanItems = <<>>

\* fastMarketScan resolves with n symbols: mapWithConcurrency has its items.
FastMarketScanResolves(n) ==
    /\ awaitingFastMarketScan
    /\ scanItems' = ScanItems(n)
    /\ slots' = [k \in 1..n |-> [symbol |-> ScanSymbolAt(k), state |-> "waiting",
                                 positive |-> FALSE]]
    /\ UNCHANGED <<btVars, storeVars, saveVars, runVars, fnVars, scanKind, scanStatus,
                   batchStart, scanResults, scanCount, cacheVars>>

\* fastMarketScan rejects: the catch block sets the status 'error'.
FastMarketScanRejects ==
    /\ awaitingFastMarketScan
    /\ scanStatus' = "error"
    /\ intradayCache' = [intradayCache EXCEPT !.error = TRUE]
    /\ scansInFlight' = scansInFlight - 1
    /\ UNCHANGED <<btVars, storeVars, saveVars, runVars, fnVars, scanKind, scanItems,
                   batchStart, slots, scanResults, scanCount>>

InitCache == InitScan

NextCache ==
    \/ \E isOpen \in BOOLEAN, forceRunWhenClosed \in BOOLEAN :
           PostIntradayStart(isOpen, forceRunWhenClosed)
    \/ \E n \in 1..MaxSymbols : FastMarketScanResolves(n)
    \/ FastMarketScanRejects
    \/ BeginFetching
    \/ \E k \in 1..MaxSymbols, positive \in BOOLEAN : SymbolScanned(k, positive)
    \/ \E k \in 1..MaxSymbols : SymbolFetchFails(k)
    \/ NextBatch
    \/ FinishScan

SpecCache == InitCache /\ [][NextCache]_vars

(***************************************************************************)
(* Properties of the single-pick replay (SpecPick)                         *)
(***************************************************************************)
Done == pc = "done"
Closed == Done /\ trade.status = "closed"
hitsStop(c) == c.low <= pick.stopLoss
hitsT1(c) == c.high >= pick.target1
hitsT2(c) == c.high >= pick.target2
hitsAnyLevel(c) == hitsStop(c) \/ hitsT1(c) \/ hitsT2(c)
containsEntry(c) == c.low <= pick.entryPrice /\ pick.entryPrice <= c.high
ZeroMoney(t) ==
    /\ t.quantity = 0 /\ t.investedAmount = 0
    /\ t.grossPnl = 0 /\ t.netPnl = 0 /\ t.roundTripCost = 0

\* C1: every candle examined in the position-open scan that reaches the stop-loss
\* and a target closes the trade as stop_loss at exitPrice = stopLoss; a candle that
\* reaches both targets and not the stop-loss closes it as target2_hit; a target
\* exit is never recorded on a candle that reaches the stop-loss.
C1_StopLossWinsThenTarget2 ==
    /\ \A i \in examined :
         LET c == tradableCandles[i]
         IN  /\ (hitsStop(c) /\ (hitsT1(c) \/ hitsT2(c)))
                  => /\ Closed
                     /\ trade.exitType = "stop_loss"
                     /\ trade.exitPrice = pick.stopLoss
                     /\ trade.exitTriggeredAt = c.minutes
             /\ (~hitsStop(c) /\ hitsT1(c) /\ hitsT2(c))
                  => /\ Closed
                     /\ trade.exitType = "target2_hit"
                     /\ trade.exitPrice = pick.target2
                     /\ trade.exitTriggeredAt = c.minutes
    /\ (Closed /\ trade.exitType \in {"target1_hit", "target2_hit"})
         => ~hitsStop(tradableCandles[scanIdx])

C1_Witness ==
    /\ Closed
    /\ scanIdx > entryIdx
    /\ hitsStop(tradableCandles[scanIdx]) /\ hitsT2(tradableCandles[scanIdx])
    /\ trade.exitType = "stop_loss"

\* The candles of the day at or after the signal time whose range contains the
\* planned entry price.
EntryCandidates ==
    {k \in 1..Len(dayCandles) :
        /\ dayCandles[k].minutes >= startMinuteOf(signalStartMinute)
        /\ containsEntry(dayCandles[k])}

EarliestCandidate == CHOOSE k \in EntryCandidates : \A j \in EntryCandidates : k <= j

EntryRule ==
    /\ (EntryCandidates # {})
         => trade.entryTriggeredAt = dayCandles[EarliestCandidate].minutes
    /\ (EntryCandidates = {})
         => /\ trade.outcome = "no_trade"
            /\ trade.reason = "entry_not_triggered"
            /\ ZeroMoney(trade)
    /\ (trade.entryTriggeredAt # NULL /\ signalStartMinute # NULL)
         => trade.entryTriggeredAt >= signalStartMinute

\* C2 as stated: entry triggers on the earliest candle at or after the signal time
\* whose range contains the entry price, and without such a candle the pick ends
\* no_trade / entry_not_triggered.
C2_Original == Done => EntryRule

\* C2 amended: the same, for a pick that has a session candle at or after the
\* signal time and capital for one share; the other picks end no_trade with the
\* reason of the earlier return, and never enter.
C2_EarliestEntryCandle ==
    /\ (Done /\ Len(tradableCandles) > 0 /\ quantity >= 1) => EntryRule
    /\ (Done /\ ~(Len(tradableCandles) > 0 /\ quantity >= 1))
         => /\ trade.outcome = "no_trade" /\ ZeroMoney(trade)
            /\ trade.entryTriggeredAt = NULL
            /\ trade.reason \in {"no_intraday_candles_for_date",
                                 "no_candles_after_signal_time",
                                 "capital_too_low_for_one_share"}
    /\ (entryIdx # 0)
         => /\ containsEntry(tradableCandles[entryIdx])
            /\ tradableCandles[entryIdx].minutes >= startMinuteOf(signalStartMinute)
            /\ \A j \in 1..(entryIdx - 1) : ~containsEntry(tradableCandles[j])

C2_Witness ==
    /\ Done
    /\ Len(dayCandles) = 3
    /\ signalStartMinute = SESSION_OPEN_MIN + 5
    /\ containsEntry(dayCandles[1])
    /\ ~containsEntry(dayCandles[2])
    /\ containsEntry(dayCandles[3])
    /\ trade.entryTriggeredAt = dayCandles[3].minutes

\* C3: entry triggered and no candle from the entry candle to the last one reaches
\* the stop-loss or a target: the pick ends no_trade / no_exit_level_hit_by_close
\* with zero quantity, P&L and cost, and no exit price.
C3_NoForcedCloseAtSessionEnd ==
    (Done /\ entryIdx # 0
          /\ \A j \in entryIdx..Len(tradableCandles) : ~hitsAnyLevel(tradableCandles[j]))
      => /\ trade.status = "no_trade"
         /\ trade.outcome = "no_trade"
         /\ trade.reason = "no_exit_level_hit_by_close"
         /\ ZeroMoney(trade)
         /\ trade.exitType = "none"
         /\ trade.exitPrice = NULL

C3_Witness ==
    /\ Done
    /\ entryIdx = 1
    /\ Len(tradableCandles) = 3
    /\ trade.reason = "no_exit_level_hit_by_close"

ExitLevel(t) ==
    CASE t.exitType = "stop_loss" -> pick.stopLoss
      [] t.exitType = "target1_hit" -> pick.target1
      [] t.exitType = "target2_hit" -> pick.target2
      [] OTHER -> NULL

C6_Original ==
    (Done /\ quantityFor(capitalPerPick, pick.entryPrice) = 0)
      => /\ trade.outcome = "no_trade"
         /\ trade.reason = "capital_too_low_for_one_share"

\* C6 amended: such a pick always ends no_trade with zero quantity; the reason is
\* capital_too_low_for_one_share when the day has a session candle at or after the
\* signal time, and otherwise the reason of the earlier return for missing candles.
C6_CapitalTooLow ==
    (Done /\ capitalPerPick.num < capitalPerPick.den * pick.entryPrice)
      => /\ trade.outcome = "no_trade"
         /\ ZeroMoney(trade)
         /\ trade.reason =
              (IF Len(dayCandles) = 0 THEN "no_intraday_candles_for_date"
               ELSE IF \A k \in 1..Len(dayCandles) :
                          dayCandles[k].minutes < startMinuteOf(signalStartMinute)
                 THEN "no_candles_after_signal_time"
               ELSE "capital_too_low_for_one_share")

C6_Witness ==
    /\ Done
    /\ capitalPerPick = [num |-> 2000, den |-> 1]
    /\ Len(tradableCandles) = 2
    /\ containsEntry(tradableCandles[1])
    /\ trade.reason = "capital_too_low_for_one_share"

(***************************************************************************)
(* Properties of the snapshot store (SpecSnap)                             *)
(***************************************************************************)
ActiveSnapshots == IF mongoConnected THEN mongoSnapshots ELSE fileSnapshots
Offered == {offeredLog[k] : k \in 1..Len(offeredLog)}
Saved == lastSave # NoSave
storedBefore == pickBestSnapshotForDate(sameDate(lastSave.before, lastSave.offered.istDate))
storedAfter == sameDate(ActiveSnapshots, lastSave.offered.istDate)

\* C8: each store holds at most one snapshot per istDate; every stored snapshot is
\* one of the snapshots a call built, picks included (nothing is merged); and when
\* a call's snapshot supersedes a stored same-date one, the old record is gone and
\* the new one is the date's only record.
C8_OneSnapshotPerDate ==
    /\ \A date \in IstDates :
         /\ Len(sameDate(fileSnapshots, date)) <= 1
         /\ Len(sameDate(mongoSnapshots, date)) <= 1
    /\ \A k \in 1..Len(ActiveSnapshots) : ActiveSnapshots[k] \in Offered
    /\ (Saved /\ storedBefore # NoSnapshot /\ lastSave.returned = lastSave.offered)
         => storedAfter = <<lastSave.offered>>

C8_Witness ==
    /\ Saved
    /\ storedBefore # NoSnapshot
    /\ storedBefore.picks = <<PickA>>
    /\ lastSave.offered.picks = <<PickA, PickB>>
    /\ lastSave.returned = lastSave.offered
    /\ Len(ActiveSnapshots) = 2

\* The highest quality among the snapshots built so far for a date.
maxOfferedQuality(date) ==
    LET qs == {snapshotQuality(o) : o \in {x \in Offered : x.istDate = date}}
    IN  CHOOSE q \in qs : \A r \in qs : r <= q

\* C9: after every call the date of the call has a stored snapshot, the call
\* returned it, and its quality is the highest among all snapshots saved for
\* that date.
C9_Original ==
    Saved =>
      /\ Len(storedAfter) = 1
      /\ lastSave.returned = storedAfter[1]
      /\ snapshotQuality(storedAfter[1]) = maxOfferedQuality(lastSave.offered.istDate)

\* Where C9 does hold: as long as the saves named no more dates than the file
\* history's limit, so that its trimming drops nothing.
C9_HoldsBelowLimit ==
    (Saved /\ Cardinality({o.istDate : o \in Offered}) <= SIGNAL_HISTORY_LIMIT) =>
      /\ Len(storedAfter) = 1
      /\ lastSave.returned = storedAfter[1]
      /\ snapshotQuality(storedAfter[1]) = maxOfferedQuality(lastSave.offered.istDate)

\* C10: a new snapshot whose quality is not lower than the stored same-date
\* snapshot's (equal included) replaces it and is returned; the stored one is kept
\* only when the new quality is strictly lower.
C10_Original ==
    (Saved /\ storedBefore # NoSnapshot) =>
      IF snapshotQuality(lastSave.offered) >= snapshotQuality(storedBefore)
        THEN /\ lastSave.returned = lastSave.offered
             /\ storedAfter = <<lastSave.offered>>
        ELSE /\ lastSave.returned = storedBefore
             /\ storedAfter = <<storedBefore>>

\* What the code does where C10 fails: on an equal score the stored snapshot stays.
C10_TieKeepsStored ==
    (Saved /\ storedBefore # NoSnapshot) =>
      IF snapshotQuality(lastSave.offered) > snapshotQuality(storedBefore)
        THEN /\ lastSave.returned = lastSave.offered
             /\ storedAfter = <<lastSave.offered>>
        ELSE /\ lastSave.returned = storedBefore
             /\ storedAfter = <<storedBefore>>

(***************************************************************************)
(* Properties of the backtest runs (SpecRun)                               *)
(***************************************************************************)
ActiveRuns == IF mongoConnected THEN mongoRuns ELSE fileRuns

\* q is the whole number of shares the allotted capital buys at the entry price.
isFloorOf(q, cap, entryPrice) ==
    /\ q * cap.den * entryPrice <= cap.num
    /\ cap.num < (q + 1) * cap.den * entryPrice

\* cap is the share of one pick: the capital, or the capital over nPicks.
isAllotment(cap, args, nPicks) ==
    IF args.allocationMode = "split_across_picks"
      THEN cap.num * nPicks = args.capital * cap.den
      ELSE cap.num = args.capital * cap.den

closedOf(ts) == SelectSeq(ts, LAMBDA t : t.status = "closed")

\* C5: the position of every pick is floor(capitalPerPick / entryPrice), where
\* capitalPerPick is the capital (per-pick mode) or the capital over the number of
\* valid picks of the snapshot (split mode); every closed trade invested
\* quantity * entryPrice <= capitalPerPick; and in split mode the invested amounts
\* of a run sum to no more than the capital.
C5_PositionSizing ==
    /\ runPc = "simulating" =>
         /\ isAllotment(capitalPerPick, runArgs, Len(sanitizePicks(runSnapshot.picks)))
         /\ pc \in {"awaiting_entry", "position_open"} =>
              isFloorOf(quantity, capitalPerPick, pick.entryPrice)
         /\ \A k \in 1..Len(trades) :
              trades[k].status = "closed" =>
                /\ isFloorOf(trades[k].quantity, capitalPerPick, trades[k].entryPrice)
                /\ trades[k].investedAmount = trades[k].quantity * trades[k].entryPrice
                /\ trades[k].investedAmount * capitalPerPick.den <= capitalPerPick.num
    /\ lastRun.ok =>
         /\ \A k \in 1..Len(lastRun.run.trades) :
              lastRun.run.trades[k].status = "closed" =>
                /\ isFloorOf(lastRun.run.trades[k].quantity, lastRun.perPick,
                             lastRun.run.trades[k].entryPrice)
                /\ lastRun.run.trades[k].investedAmount * lastRun.perPick.den
                     <= lastRun.perPick.num
         /\ lastRun.args.allocationMode = "split_across_picks" =>
              sumOf(lastRun.run.trades, "investedAmount") <= lastRun.args.capital

\* A split run over three valid picks that closed two trades, with more than half
\* of the capital deployed.
C5_Witness ==
    /\ lastRun.ok
    /\ lastRun.args.allocationMode = "split_across_picks"
    /\ lastRun.args.capital = 100000
    /\ Len(lastRun.run.trades) = 3
    /\ Len(closedOf(lastRun.run.trades)) = 2
    /\ lastRun.run.trades[1].quantity = 13
    /\ 2 * sumOf(lastRun.run.trades, "investedAmount") > lastRun.args.capital

\* Two calls in sequence, both returned, same arguments, same candles fetched (and
\* the same fetches failed); the stored snapshot is the same because no scan is
\* saved in between.
SameRunTwice ==
    /\ lastRun.ok
    /\ prevRun.ok
    /\ lastRun.args = prevRun.args
    /\ lastRun.candles = prevRun.candles
    /\ lastRun.failed = prevRun.failed

\* C7: the second of two identical runs in sequence has the same trades and
\* summary, is not persisted, names the first run's id as duplicateOfRunId (and
\* as its own id), and leaves the run store as it was; and a run whose key has no
\* stored run yet is persisted under its own id, as the store's newest record.
C7_SecondRunIsDuplicate ==
    /\ SameRunTwice =>
         /\ lastRun.run.trades = prevRun.run.trades
         /\ lastRun.run.summary = prevRun.run.summary
         /\ lastRun.persisted = FALSE
         /\ lastRun.duplicateOfRunId = prevRun.id
         /\ lastRun.id = prevRun.id
         /\ runPc = "idle" => ActiveRuns = lastRun.storeBefore
    /\ (/\ lastRun.ok
        /\ \A k \in 1..Len(lastRun.storeBefore) :
             ~sameRunKey(lastRun.storeBefore[k], lastRun.run)) =>
         /\ lastRun.persisted
         /\ lastRun.duplicateOfRunId = NULL
         /\ lastRun.id = lastRun.run.id
         /\ runPc = "idle" =>
              /\ ActiveRuns # <<>>
              /\ ActiveRuns[Len(ActiveRuns)] = lastRun.run

\* The second of two identical split runs with a closed trade, the first of which
\* was persisted.
C7_Witness ==
    /\ SameRunTwice
    /\ prevRun.persisted
    /\ lastRun.persisted = FALSE
    /\ lastRun.duplicateOfRunId = prevRun.run.id
    /\ Len(closedOf(lastRun.run.trades)) >= 1
    /\ Len(ActiveRuns) = 1

(***************************************************************************)
(* Properties of runs with failing fetches (SpecFail)                      *)
(***************************************************************************)
\* t reports no trade and no money for pick p.
isNoTradeFor(t, p, status) ==
    /\ t.symbol = p.symbol
    /\ t.status = status
    /\ t.outcome = "no_trade"
    /\ t.quantity = 0
    /\ t.investedAmount = 0
    /\ t.grossPnl = 0
    /\ t.netPnl = 0
    /\ t.roundTripCost = 0

\* C11: a run has one trade record per valid pick, in pick order; a pick whose
\* simulation threw has an error record and a pick without candles a no_data
\* record, both no_trade with zero quantity and P&L; the record of every other
\* pick equals its record in a run of the same arguments and candles where the
\* failures fell elsewhere; and the run returns with a summary over all records.
C11_OneRecordPerPickFailuresIsolated ==
    /\ runPc = "simulating" =>
         /\ Len(trades) = pickCursor - 1
         /\ \A k \in 1..Len(trades) : trades[k].symbol = runPicks[k].symbol
         /\ \A k \in fetchFailed \cap (1..Len(trades)) :
              isNoTradeFor(trades[k], runPicks[k], "error")
    /\ lastRun.ok =>
         /\ Len(lastRun.run.trades) = Len(lastRun.picks)
         /\ lastRun.picks = sanitizePicks(runSnapshot.picks)
         /\ lastRun.run.summary.totalSignals = Len(lastRun.picks)
         /\ lastRun.run.summary.noTrade >= Cardinality(lastRun.failed)
         /\ \A k \in 1..Len(lastRun.picks) :
              /\ lastRun.run.trades[k].symbol = lastRun.picks[k].symbol
              /\ k \in lastRun.failed =>
                   isNoTradeFor(lastRun.run.trades[k], lastRun.picks[k], "error")
              /\ (k \notin lastRun.failed /\ lastRun.candles[lastRun.picks[k].symbol] = <<>>) =>
                   isNoTradeFor(lastRun.run.trades[k], lastRun.picks[k], "no_data")
              /\ (k \notin lastRun.failed /\ lastRun.candles[lastRun.picks[k].symbol] # <<>>) =>
                   lastRun.run.trades[k].status \in {"closed", "no_trade"}
    /\ (lastRun.ok /\ prevRun.ok /\ lastRun.args = prevRun.args
          /\ lastRun.candles = prevRun.candles) =>
         \A k \in 1..Len(lastRun.picks) :
           k \notin (lastRun.failed \cup prevRun.failed) =>
             lastRun.run.trades[k] = prevRun.run.trades[k]

\* A run of three picks whose second fetch threw, after a run of the same
\* arguments without failure: the first and third picks closed in both.
C11_Witness ==
    /\ lastRun.ok
    /\ prevRun.ok
    /\ lastRun.args = prevRun.args
    /\ prevRun.failed = {}
    /\ lastRun.failed = {2}
    /\ Len(lastRun.run.trades) = 3
    /\ lastRun.run.trades[1].status = "closed"
    /\ lastRun.run.trades[2].status = "error"
    /\ lastRun.run.trades[3].status = "closed"
    /\ lastRun.run.trades[3] = prevRun.run.trades[3]
    /\ lastRun.persisted

\* The call's arguments fail a precondition of runIntradayBacktest: capital not
\* positive, no snapshot stored for the date, or no valid pick in the snapshot.
failsPrecondition(args) ==
    \/ args.capital <= 0
    \/ listIntradaySignalSnapshots(args.tradeDate) = <<>>
    \/ sanitizePicks(listIntradaySignalSnapshots(args.tradeDate)[1].picks) = <<>>

Rejected == lastRun # NoRun /\ ~lastRun.ok

\* C12: a call whose arguments fail a precondition rejects with a message, leaves
\* the run store as it was and is answered with HTTP 400; a call rejected for
\* another reason is answered with HTTP 500.
C12_Original ==
    /\ (lastRun # NoRun /\ failsPrecondition(lastRun.args)) =>
         /\ ~lastRun.ok
         /\ lastRun.error # <<>>
         /\ lastRun.httpStatus = 400
         /\ runPc = "idle" => ActiveRuns = lastRun.storeBefore
    /\ (Rejected /\ ~failsPrecondition(lastRun.args)) => lastRun.httpStatus = 500

\* What the code does where C12 fails: the message of a non-positive capital
\* begins with an upper-case C, which none of the route's patterns matches, so
\* that rejection is answered with HTTP 500; the other two are answered with 400.
C12_CapitalRejectionIs500 ==
    /\ (lastRun # NoRun /\ failsPrecondition(lastRun.args)) =>
         /\ ~lastRun.ok
         /\ lastRun.error # <<>>
         /\ lastRun.httpStatus = IF lastRun.args.capital <= 0 THEN 500 ELSE 400
         /\ runPc = "idle" => ActiveRuns = lastRun.storeBefore
    /\ (Rejected /\ ~failsPrecondition(lastRun.args)) => lastRun.httpStatus = 500

(***************************************************************************)
(* Properties of the entry plans (SpecPlan)                                *)
(***************************************************************************)
rejectionMarkers == {"invalid", "rr_weak", "scalp_only"}

\* A calculator has returned a plan for a positive finite price.
PlanReturned ==
    /\ input.fn \in {"calculateSwingEntryPrice", "calculateIntradayEntryPrice"}
    /\ output.returned
    /\ valid(input.price)

\* C13 as stated: every plan whose entryType is not a rejection marker has
\* stopLoss < entryPrice <= market price < target1 < target2.
C13_Original ==
    (PlanReturned /\ output.entryType \notin rejectionMarkers)
        => /\ output.stopLoss < output.entryPrice
           /\ output.entryPrice <= input.price
           /\ input.price < output.target1
           /\ output.target1 < output.target2

\* C13, the part of the ordering the calculators do keep: the stop is below
\* the entry, the entry is not above the market price and the second target
\* is above the first.
C13_StopEntryAndTargetsOrdered ==
    (PlanReturned /\ output.entryType \notin rejectionMarkers)
        => /\ output.stopLoss < output.entryPrice
           /\ output.entryPrice <= input.price
           /\ output.target1 < output.target2

\* A swing plan of a normal entryType whose first target is below its entry.
C13_SwingTargetBelowEntry ==
    /\ PlanReturned
    /\ input.fn = "calculateSwingEntryPrice"
    /\ output.entryType \notin rejectionMarkers
    /\ output.target1 < output.entryPrice

\* An intraday plan of a normal entryType whose first target is not above the
\* market price.
C13_IntradayTargetNotAboveMarket ==
    /\ PlanReturned
    /\ input.fn = "calculateIntradayEntryPrice"
    /\ output.entryType \notin rejectionMarkers
    /\ output.target1 <= input.price

\* C14 as stated: the net risk-reward reported by a plan, and by the cost
\* model, is at most the gross one.
C14_Original ==
    /\ PlanReturned => output.riskRewardAfterCosts <= output.riskRewardGross
    /\ (input.fn = "applyRoundTripCostModel" /\ output.returned /\ output.stats.defined
          /\ output.stats.riskRewardAfterCosts.defined)
        => LET net   == output.stats.riskRewardAfterCosts
               gross == output.stats.riskRewardGross
           IN  net.num * gross.den <= gross.num * net.den

\* C14 where the first target is at or above the entry: the net ratio is at
\* most the gross one.
C14_NetAtMostGrossWhenTargetAboveEntry ==
    /\ (PlanReturned /\ output.target1 >= output.entryPrice)
        => output.riskRewardAfterCosts <= output.riskRewardGross
    /\ (input.fn = "applyRoundTripCostModel" /\ output.returned /\ output.stats.defined
          /\ output.stats.riskRewardAfterCosts.defined
          /\ input.target1 >= input.entryPrice)
        => LET net   == output.stats.riskRewardAfterCosts
               gross == output.stats.riskRewardGross
           IN  net.num * gross.den <= gross.num * net.den

\* A plan whose net ratio is above its gross ratio.
C14_PlanNetAboveGross ==
    /\ PlanReturned
    /\ output.riskRewardAfterCosts > output.riskRewardGross

(***************************************************************************)
(* Properties of the quality list (SpecQuality)                            *)
(***************************************************************************)
ThresholdReturned == input.fn = "deriveAdaptiveQualityThreshold" /\ output.returned

\* C15: deriveAdaptiveQualityThreshold returns a value within [34, 56] for
\* every batch, whatever the scores are (not finite or missing included), and
\* 40 for an empty batch.
C15_ThresholdWithinBounds ==
    ThresholdReturned
        => /\ output.threshold >= 34
           /\ output.threshold <= 56
           /\ input.scoredCandidates = <<>> => output.threshold = 40

\* A batch holding a score that is not a finite number, one below 34 and one
\* above 56.
C15_Witness ==
    /\ ThresholdReturned
    /\ \E i, j, k \in 1..Len(input.scoredCandidates) :
         /\ input.scoredCandidates[i].qualityScore.kind \in {"NaN", "undefined", "Infinity"}
         /\ input.scoredCandidates[j].qualityScore = Num(0 - 25)
         /\ input.scoredCandidates[k].qualityScore = Num(90)

QualityListReturned == input.fn = "buildQualitySwingList" /\ output.returned

\* The results whose net risk-reward is a number of at least 1.0
floorPassers == {i \in 1..Len(input.results) :
                    /\ netRiskReward(input.results[i]) # NULL
                    /\ netRiskReward(input.results[i]) >= 100}

\* The scored candidates the threshold is derived from: positive results
\* that pass the floor and the swing_market rules, in scan order.
thresholdBatch ==
    SelectSeq([i \in 1..Len(input.results) |-> withQualityScore(input.results[i])],
              LAMBDA s : \E i \in floorPassers :
                            /\ withQualityScore(input.results[i]) = s
                            /\ isPositiveResult(input.results[i])
                            /\ passesRiskRewardFloor(s))

\* C16: buildQualitySwingList returns only candidates whose net risk-reward
\* is at least 1.0 and whose quality score is at or above the threshold; the
\* threshold is derived from candidates that passed the floor only; the list
\* is ordered by score descending, then by net risk-reward descending.
C16_QualityListFilteredAndOrdered ==
    QualityListReturned
        => /\ \A k \in 1..Len(output.stocks) :
                /\ netRiskReward(output.stocks[k]) # NULL
                /\ netRiskReward(output.stocks[k]) >= 100
                /\ output.stocks[k].qualityScore.n >= output.qualityThreshold
                /\ \E i \in floorPassers :
                      output.stocks[k] = withQualityScore(input.results[i])
           /\ output.qualityThreshold = deriveAdaptiveQualityThreshold(thresholdBatch)
           /\ \A k \in 1..(Len(output.stocks) - 1) :
                \/ output.stocks[k].qualityScore.n > output.stocks[k + 1].qualityScore.n
                \/ /\ output.stocks[k].qualityScore.n = output.stocks[k + 1].qualityScore.n
                   /\ netRiskReward(output.stocks[k]) >= netRiskReward(output.stocks[k + 1])

\* A list with two stocks of equal score and different net risk-reward,
\* returned for a scan holding a result below the floor whose score is at or
\* above the threshold.
C16_Witness ==
    /\ QualityListReturned
    /\ Len(output.stocks) >= 2
    /\ \E k \in 1..(Len(output.stocks) - 1) :
         /\ output.stocks[k].qualityScore = output.stocks[k + 1].qualityScore
         /\ netRiskReward(output.stocks[k]) > netRiskReward(output.stocks[k + 1])
    /\ \E i \in 1..Len(input.results) :
         /\ isPositiveResult(input.results[i])
         /\ netRiskReward(input.results[i]) # NULL
         /\ netRiskReward(input.results[i]) < 100
         /\ computeSwingQualityScore(input.results[i]) >= output.qualityThreshold

(***************************************************************************)
(* Properties of the evaluators (SpecVerdict)                              *)
(***************************************************************************)
IntradayVerdictReturned == input.fn = "evaluateIntraday" /\ output.returned

\* C17 as stated: for every input whose marketCap is missing or below
\* Rs 1000 Cr evaluateIntraday returns 'Low Liquidity - Avoid' with negative
\* sentiment, whatever the other inputs are.
C17_Original ==
    (IntradayVerdictReturned /\ (input.marketCap = NULL \/ input.marketCap < 1000))
        => /\ output.label = "Low Liquidity - Avoid"
           /\ output.sentiment = "negative"

\* C17 as the code has it: the chop-day rule is tested before the
\* low-liquidity rule, which decides every input the chop-day rule lets pass.
C17_LowLiquidityAfterChop ==
    (IntradayVerdictReturned /\ (input.marketCap = NULL \/ input.marketCap < 1000))
        => IF choppyMarket(input)
             THEN output.label = "Choppy Market - Avoid" /\ output.sentiment = "neutral"
             ELSE output.label = "Low Liquidity - Avoid" /\ output.sentiment = "negative"

\* A low-capitalisation stock on a chop day gets the chop verdict.
C17_ChoppyLowCap ==
    /\ IntradayVerdictReturned
    /\ input.marketCap # NULL
    /\ input.marketCap < 1000
    /\ output.label = "Choppy Market - Avoid"

SwingVerdictReturned == input.fn = "evaluateSwing" /\ output.returned

\* C18: evaluateSwing called with swingVWAP undefined, null, NaN or
\* otherwise not finite returns 'Insufficient Structure Data' with neutral
\* sentiment for every combination of the other inputs.
C18_MissingStructureIsNeutral ==
    (SwingVerdictReturned /\ input.swingVWAP.kind # "number")
        => /\ output.label = "Insufficient Structure Data"
           /\ output.sentiment = "neutral"

\* A call with swingVWAP NaN whose other inputs make a high-quality setup
\* when swingVWAP is a number.
C18_Witness ==
    /\ SwingVerdictReturned
    /\ input.swingVWAP = JsNaN
    /\ evaluateSwing([input EXCEPT !.swingVWAP = Num(9900)]).label
         = "High-Quality Swing Setup"

(***************************************************************************)
(* Properties of computeRSI (SpecRSI)                                      *)
(***************************************************************************)
RSIReturned == input.fn = "computeRSI" /\ output.returned

\* No close is below the one before it.
noLosses == \A i \in 1..(Len(input.closes) - 1) : input.closes[i + 1] >= input.closes[i]

strictlyIncreasing ==
    \A i \in 1..(Len(input.closes) - 1) : input.closes[i + 1] > input.closes[i]

strictlyDecreasing ==
    \A i \in 1..(Len(input.closes) - 1) : input.closes[i + 1] < input.closes[i]

\* C19 as stated: computeRSI returns null when closes has at most period
\* elements; otherwise a value within [0, 100], which is 100 when the series
\* has only gains and 0 when it has only losses.
C19_Original ==
    RSIReturned
        => IF Len(input.closes) <= input.period THEN output.rsi = NULL
           ELSE /\ output.rsi >= 0
                /\ output.rsi <= 1000
                /\ strictlyIncreasing => output.rsi = 1000
                /\ strictlyDecreasing => output.rsi = 0

\* C19 as the code has it: a series without losses gives 99.0, the value of
\* 100 - 100 / (1 + 100); the rest is as stated.
C19_NoLossesGive99 ==
    RSIReturned
        => IF Len(input.closes) <= input.period THEN output.rsi = NULL
           ELSE /\ output.rsi >= 0
                /\ output.rsi <= 1000
                /\ noLosses => output.rsi = 990
                /\ strictlyDecreasing => output.rsi = 0

\* The RSI of a strictly increasing series longer than the period is 99.0.
C19_IncreasingSeriesBelow100 ==
    /\ RSIReturned
    /\ Len(input.closes) > input.period
    /\ strictlyIncreasing
    /\ output.rsi = 990

(***************************************************************************)
(* Properties of the scan workflows (SpecScan)                             *)
(***************************************************************************)
\* Every symbol has its result, error-tagged exactly when its fetch failed.
everySymbolAnswered ==
    /\ Len(scanResults) = Len(scanItems)
    /\ \A k \in 1..Len(scanItems) :
         /\ scanResults[k].symbol = scanItems[k]
         /\ scanResults[k].error <=> slots[k].state = "failed"
         /\ slots[k].state \in {"done", "failed"}

\* C20 as stated: in every scan workflow the number of symbols being fetched
\* at the same time never exceeds the worker bound, and a failed fetch gives
\* an error-tagged result for its symbol while the others are still
\* processed.
C20_Original ==
    /\ Cardinality(inFlight) <= WorkerBound
    /\ scanStatus = "done" => everySymbolAnswered

\* C20 as the code has it: the bound holds in the background scans; a direct
\* scan fetches all its symbols at once; failures are isolated in both.
C20_BoundedInBackgroundOnly ==
    /\ isBackground(scanKind) => Cardinality(inFlight) <= WorkerBound
    /\ Cardinality(inFlight) <= Len(scanItems)
    /\ scanStatus = "done" => everySymbolAnswered

\* A direct scan with more symbols in flight than the worker bound.
C20_DirectScanAboveBound ==
    /\ ~isBackground(scanKind)
    /\ Cardinality(inFlight) > WorkerBound

\* A background scan of more symbols than the bound that finished with a
\* failed fetch among them.
C20_BackgroundScanWithFailure ==
    /\ isBackground(scanKind)
    /\ scanStatus = "done"
    /\ Len(scanItems) > WorkerBound
    /\ \E j, k \in 1..Len(scanItems) :
         scanResults[j].error /\ ~scanResults[k].error


(***************************************************************************)
(* Properties of the saves that fall back to the file store (SpecFallback) *)
(***************************************************************************)
\* The last snapshot save, or the last run, went to the file although Mongo is
\* connected: a Mongo call rejected.
SnapshotFellBack == mongoConnected /\ lastSave.storage = "file"
RunFellBack == mongoConnected /\ lastRun.ok /\ lastRun.storage = "file"

inSeq(x, seq) == \E k \in 1..Len(seq) : seq[k] = x

\* The file kept the date's best: the offered snapshot is returned and stored as
\* the date's only record, or a stored one at least as good is returned and kept.
fallbackSnapshotKept ==
    LET offered  == lastSave.offered
        returned == lastSave.returned
    IN  /\ sameDate(fileSnapshots, offered.istDate) = <<returned>>
        /\ \/ returned = offered
           \/ /\ inSeq(returned, lastSave.before)
              /\ returned.istDate = offered.istDate
              /\ snapshotQuality(returned) >= snapshotQuality(offered)

\* The run is returned to the caller, and it is in the file, or the file's
\* newest run of the key has the same outcome and is named as the duplicate.
fallbackRunKept ==
    /\ lastRun.run.tradeDate = lastRun.args.tradeDate
    /\ Len(lastRun.run.trades) = Len(lastRun.picks)
    /\ IF lastRun.persisted
         THEN inSeq(lastRun.run, fileRuns) /\ lastRun.id = lastRun.run.id
         ELSE \E k \in 1..Len(fileRuns) :
                /\ fileRuns[k].id = lastRun.duplicateOfRunId
                /\ isSameBacktestOutcome(fileRuns[k], lastRun.run)
                /\ fileRuns = lastRun.storeBefore

\* C21: when Mongo is connected but rejects a call during the save of a snapshot
\* or of a backtest run, the save completes, the record is in the file store under
\* the best-per-date and dedup rules, and the result is returned to the caller.
C21_Original ==
    /\ SnapshotFellBack => fallbackSnapshotKept
    /\ RunFellBack => fallbackRunKept

\* C21 for the histories the retention limit does not cut: the same statement when
\* the file held fewer than SIGNAL_HISTORY_LIMIT other dates before the save.
C21_FallbackKeepsRecordBelowLimit ==
    /\ (/\ SnapshotFellBack
        /\ Len(otherDates(lastSave.before, lastSave.offered.istDate)) < SIGNAL_HISTORY_LIMIT)
         => fallbackSnapshotKept
    /\ RunFellBack => fallbackRunKept

\* A fallback save of a new date into a full file history returns the snapshot
\* and the file does not hold it.
C21_FallbackSnapshotDropped ==
    /\ SnapshotFellBack
    /\ lastSave.returned = lastSave.offered
    /\ ~inSeq(lastSave.offered, fileSnapshots)

\* Both fallbacks happened and kept their records: a snapshot written to the file
\* after Mongo rejected, and a run stored in the file after Mongo rejected.
C21_FallbackBothKept ==
    /\ SnapshotFellBack /\ lastSave.returned = lastSave.offered
    /\ inSeq(lastSave.offered, fileSnapshots)
    /\ RunFellBack /\ lastRun.persisted /\ inSeq(lastRun.run, fileRuns)

(***************************************************************************)
(* Properties of the effective gap (SpecGap)                               *)
(***************************************************************************)
\* The evaluator named by a call's arguments, applied to other arguments.
evaluatorOf(args) ==
    CASE args.fn = "evaluateSwing" -> evaluateSwing(args)
      [] args.fn = "evaluateIntraday" -> evaluateIntraday(args)
      [] OTHER -> positionEvaluator_evaluateIntraday(args)

\* The verdict is the one the same evaluator gives for every other gapOpenPct.
verdictIgnoresOpenGap ==
    \A gapOpen \in OpenGaps \cup {0 - 4500} :
        output = evaluatorOf([input EXCEPT !.gapOpenPct = gapOpen])

\* C22: in the evaluators the effective gap is gapNowPct whenever it is present,
\* a zero included: with gapNowPct given, the verdict does not depend on
\* gapOpenPct.
C22_Original ==
    (output.returned /\ input.gapNowPct # NULL) => verdictIgnoresOpenGap

\* C22 for the evaluators of the entry-plan module (nullish coalescing / isFinite):
\* every call but those of services/positionEvaluator.js.
C22_NullishEvaluatorsUseGapNow ==
    (/\ output.returned
     /\ input.gapNowPct # NULL
     /\ input.fn # "positionEvaluator.evaluateIntraday")
      => verdictIgnoresOpenGap

\* services/positionEvaluator.js: gapNowPct 0 and gapOpenPct 1.0 on a flat tape
\* is not the chop day that gapNowPct 0 makes it.
C22_ZeroGapNowReadAsGapOpen ==
    /\ output.returned
    /\ input.fn = "positionEvaluator.evaluateIntraday"
    /\ input.gapNowPct = 0
    /\ input.gapOpenPct = 1000
    /\ choppyMarketAt(input, 0)
    /\ output.label # "Choppy Market - Avoid"

\* The nullish evaluator on the same arguments: zero gapNowPct, gapOpenPct 1.0,
\* answered as the chop day.
C22_ZeroGapNowKept ==
    /\ output.returned
    /\ input.fn = "evaluateIntraday"
    /\ input.gapNowPct = 0
    /\ input.gapOpenPct = 1000
    /\ output.label = "Choppy Market - Avoid"

(***************************************************************************)
(* Properties of the exit candle (SpecPick)                                *)
(***************************************************************************)
inRange(c, level) == c.low <= level /\ level <= c.high
containsAnyLevel(c) ==
    inRange(c, pick.stopLoss) \/ inRange(c, pick.target1) \/ inRange(c, pick.target2)

\* The candle the closed trade's exit was taken on.
exitCandle == tradableCandles[scanIdx]

\* No candle from the entry candle up to the one before the exit candle has a
\* range containing the stop-loss or a target.
noEarlierLevelCandle ==
    \A i \in entryIdx..(scanIdx - 1) : ~containsAnyLevel(tradableCandles[i])

\* C23: a position is closed only on a candle whose [low, high] range contains
\* the exit level taken, and no earlier candle from the entry candle onward had a
\* range containing the stop-loss, target1 or target2.
C23_Original ==
    Closed => /\ inRange(exitCandle, trade.exitPrice)
              /\ noEarlierLevelCandle

\* C23 as the loop tests it: the exit candle trades at or through the level taken
\* (low at or below the stop-loss, high at or above the target), and no earlier
\* candle from the entry candle onward reached a level.
C23_ExitCandleReachesLevel ==
    Closed => /\ trade.exitType = "stop_loss"
                   => (exitCandle.low <= pick.stopLoss /\ trade.exitPrice = pick.stopLoss)
              /\ trade.exitType = "target1_hit"
                   => (exitCandle.high >= pick.target1 /\ trade.exitPrice = pick.target1)
              /\ trade.exitType = "target2_hit"
                   => (exitCandle.high >= pick.target2 /\ trade.exitPrice = pick.target2)
              /\ trade.exitTriggeredAt = exitCandle.minutes
              /\ \A i \in entryIdx..(scanIdx - 1) : ~hitsAnyLevel(tradableCandles[i])
              /\ noEarlierLevelCandle

\* A candle that opens and stays below the stop-loss closes the trade at the
\* stop-loss, a price outside its range.
C23_GapThroughStop ==
    /\ Closed
    /\ scanIdx > entryIdx
    /\ exitCandle.high < pick.stopLoss
    /\ trade.exitPrice = pick.stopLoss

(***************************************************************************)
(* Properties of the candle granularity (SpecFetch)                        *)
(***************************************************************************)
\* The i-th interval has data: its fetch resolves with candles of the trade date
\* inside the session.
hasData(i) ==
    /\ ~input.answers[i].rejected
    /\ Len(normalizeDayCandles(input.answers[i].candles, input.tradeDate)) > 0

IntervalsWithData == {i \in 1..Len(BACKTEST_INTERVAL_PRIORITY) : hasData(i)}

\* The first interval of the priority order with data, 0 when there is none.
firstWithData ==
    IF IntervalsWithData = {} THEN 0
    ELSE CHOOSE i \in IntervalsWithData : \A j \in IntervalsWithData : i <= j

\* The pick was simulated on the candles of the first interval with data.
simulatedOnFirstWithData ==
    /\ output.returned
    /\ output.interval = BACKTEST_INTERVAL_PRIORITY[firstWithData]
    /\ dayCandles = normalizeDayCandles(input.answers[firstWithData].candles,
                                        input.tradeDate)
    /\ trade.status \notin {"error", "no_data"}

endsWithoutCandles ==
    /\ trade.status = "no_data"
    /\ trade.reason = "no_intraday_candles_for_date"

\* A fetch that rejects among the intervals asked before the first one with data
\* (among all of them when none has data).
rejectedBeforeData ==
    \E j \in 1..Len(BACKTEST_INTERVAL_PRIORITY) :
        /\ input.answers[j].rejected
        /\ firstWithData = 0 \/ j < firstWithData

\* C24: the intervals are tried in priority order and the first with a non-empty
\* session-filtered candle set is used; a finer interval that returns nothing or
\* fails does not fail the pick when a coarser one has data, and only when no
\* interval has data does the pick end with no_intraday_candles_for_date.
C24_Original ==
    Done => IF firstWithData # 0 THEN simulatedOnFirstWithData ELSE endsWithoutCandles

\* C24 for fetches that resolve: the same statement when no fetch asked before the
\* first interval with data rejects; when one does, the pick ends as an error
\* record with zero amounts.
C24_FirstWithDataUnlessFetchRejects ==
    Done => IF rejectedBeforeData
              THEN trade.status = "error" /\ ZeroMoney(trade) /\ ~output.returned
            ELSE IF firstWithData # 0 THEN simulatedOnFirstWithData
            ELSE endsWithoutCandles

\* The 1m fetch rejects, the 2m interval has data, and the pick ends in error.
C24_FinerRejectsCoarserIgnored ==
    /\ Done
    /\ input.answers[1].rejected
    /\ hasData(2)
    /\ trade.status = "error"

\* The 1m and 2m fetches resolve without candles of the session and the pick is
\* closed on the 5m candles.
C24_CoarsestUsed ==
    /\ Done
    /\ firstWithData = 3
    /\ ~rejectedBeforeData
    /\ output.interval = "5m"
    /\ trade.status = "closed"

(***************************************************************************)
(* Properties of the stretch-zone verdict and plan (SpecDeep)              *)
(***************************************************************************)
StretchVerdict ==
    /\ output.returned
    /\ output.intradayView.label = "Stretch Zone - Scalp Only"

\* C25: whenever evaluateIntraday answers 'Stretch Zone - Scalp Only',
\* calculateIntradayEntryPrice with the same price, VWAP, RSI and volume context
\* returns the scalp profile (entryType scalp_only).
C25_Original ==
    StretchVerdict => output.entryPriceData.entryType = "scalp_only"

\* What the two functions do: the verdict needs a volume spike and the scalp
\* profile needs its absence, so the stretch-zone verdict never comes with the
\* scalp profile, and the scalp profile only comes without a volume spike.
C25_StretchVerdictNeverScalpPlan ==
    /\ StretchVerdict => /\ input.volumeSpike
                         /\ output.entryPriceData.entryType # "scalp_only"
    /\ (output.returned /\ output.entryPriceData.entryType = "scalp_only")
         => ~input.volumeSpike

\* The stretch-zone verdict for a price 11% above VWAP, with a full entry plan.
C25_StretchVerdictFullPlan ==
    /\ StretchVerdict
    /\ input.vwap = 9000
    /\ output.entryPriceData.entryType \notin {"scalp_only", "invalid", "rr_weak"}
    /\ output.entryPriceData.riskRewardAfterCosts >= 100

\* The scalp profile returned under another verdict.
C25_ScalpPlanOtherVerdict ==
    /\ output.returned
    /\ output.entryPriceData.entryType = "scalp_only"
    /\ ~StretchVerdict

(***************************************************************************)
(* Properties of the overextended-VWAP guard (SpecPlan)                    *)
(***************************************************************************)
IntradayPlanReturned ==
    /\ output.returned
    /\ input.fn = "calculateIntradayEntryPrice"
    /\ valid(input.price)

\* The price is above VWAP by more than clamp(1.8 x ATR%, 3%, 5.5%) and there is
\* no volume spike.
overextendedWithoutVolume ==
    LET atrPct == clamp(Coalesce(input.volatilityPct, 1100), 450, 3800)
        limit  == clamp((atrPct * 180) \div 100, 3000, 5500)
    IN  /\ valid(input.vwap)
        /\ (input.price - input.vwap) * 100 * MILLI > limit * input.vwap
        /\ ~input.volumeSpike

\* The forced scalp profile: entry at the market price, stop 1.2% below, targets
\* 1.0% and 1.8% above, ratios 0.60 net and 0.70 gross.
isScalpProfile(plan) ==
    /\ plan.entryType = "scalp_only"
    /\ plan.entryPrice = input.price
    /\ plan.stopLoss = (input.price * 988 + 500) \div 1000
    /\ plan.target1 = (input.price * 1010 + 500) \div 1000
    /\ plan.target2 = (input.price * 1018 + 500) \div 1000
    /\ plan.riskReward = 60 /\ plan.riskRewardAfterCosts = 60
    /\ plan.riskRewardGross = 70

\* C26: calculateIntradayEntryPrice returns the forced scalp profile whenever the
\* price is above VWAP by more than the ATR-scaled limit without a volume spike,
\* for every RSI value.
C26_Original ==
    (IntradayPlanReturned /\ overextendedWithoutVolume) => isScalpProfile(output)

\* C26 with the RSI test of the guard: the scalp profile is returned exactly when
\* the price is overextended above VWAP without a volume spike and the RSI (50
\* when missing) is above 60; otherwise the strategy selection runs and the plan
\* is not scalp_only.
C26_ScalpProfileWhenRsiAbove60 ==
    IntradayPlanReturned =>
        IF overextendedWithoutVolume /\ Coalesce(input.rsi, 50) > 60
          THEN isScalpProfile(output)
          ELSE output.entryType # "scalp_only"

\* An overextended price without volume and an RSI of 55: the strategy selection
\* ran.
C26_Witness ==
    /\ IntradayPlanReturned
    /\ overextendedWithoutVolume
    /\ input.rsi = 55
    /\ output.entryType \notin {"scalp_only", "invalid"}

\* The scalp profile returned for an RSI of 68 and a price 4.2% above VWAP, which
\* is beyond the limit for a missing volatility (3%).
C26_ScalpProfileReturned ==
    /\ IntradayPlanReturned
    /\ overextendedWithoutVolume
    /\ input.rsi = 68
    /\ input.vwap = input.price - input.price \div 25
    /\ isScalpProfile(output)

\* The same price and RSI within the limit of a volatility of 2.5% (4.5%): the
\* strategy selection ran.
C26_WithinAtrScaledLimit ==
    /\ IntradayPlanReturned
    /\ ~input.volumeSpike
    /\ input.rsi = 68
    /\ input.vwap = input.price - input.price \div 25
    /\ input.volatilityPct = 2500
    /\ output.entryType # "scalp_only"

\* ---------------------------------------------------------------------------
\* Properties of the resistance cap of the two calculators (SpecPlan)
\* ---------------------------------------------------------------------------

\* The ATR the calculator named by the input works with, in thousandths of a
\* percent (part_005 lines 520 and 735)
planAtrPct ==
    IF input.fn = "calculateSwingEntryPrice"
      THEN clamp(Coalesce(input.volatilityPct, 2400), 1000, 7500)
      ELSE clamp(Coalesce(input.volatilityPct, 1100), 450, 3800)

\* The buffer kept below the resistance, in thousandths of a percent
resistanceBufferPct ==
    IF input.fn = "calculateSwingEntryPrice"
      THEN clamp(times(planAtrPct, 12), 150, 550)
      ELSE clamp(times(planAtrPct, 15), 80, 350)

\* The widest extension of the runner beyond the resistance, in thousandths of
\* a percent
runnerExtensionPct ==
    IF input.fn = "calculateSwingEntryPrice"
      THEN clamp(times(planAtrPct, 40), 600, 2200)
      ELSE clamp(times(planAtrPct, 25), 250, 900)

\* resistance x (1 - buffer) and resistance x (1 + extension), in paise
resistanceCapPaise ==
    mulDivRound(input.resistance, 100 * MILLI - resistanceBufferPct, 100 * MILLI)

runnerCapPaise ==
    mulDivRound(input.resistance, 100 * MILLI + runnerExtensionPct, 100 * MILLI)

\* A returned plan that is no rejection and no breakout, with a valid
\* resistance above its entry
resistanceAboveEntry ==
    /\ PlanReturned
    /\ output.entryType \notin rejectionMarkers
    /\ output.entryType \notin {"swing_breakout", "resistance_breakout", "orb_breakout"}
    /\ valid(input.resistance)
    /\ input.resistance > output.entryPrice

\* C27 as stated: in both calculators, a valid resistance above the entry of a
\* plan that is no breakout keeps target1 at or below resistance x (1 - buffer)
\* and target2 at or below the bounded runner cap beyond the resistance.
C27_Original ==
    resistanceAboveEntry =>
        /\ output.target1 <= resistanceCapPaise
        /\ output.target2 <= runnerCapPaise

\* C27 for the swing calculator alone: target1 stays at or below
\* resistance x (1 - buffer) and target2 at or below the runner cap.
C27_SwingTargetsCapped ==
    (resistanceAboveEntry /\ input.fn = "calculateSwingEntryPrice") =>
        /\ output.target1 <= resistanceCapPaise
        /\ output.target2 <= runnerCapPaise

\* A swing plan whose resistance lies a tenth of a percent above the market.
C27_SwingResistanceJustAbove ==
    /\ resistanceAboveEntry
    /\ input.fn = "calculateSwingEntryPrice"
    /\ input.resistance = input.price + input.price \div 1000
    /\ output.target1 <= resistanceCapPaise

\* An intraday plan whose resistance lies a tenth of a percent above the
\* market and whose target1 lies above that resistance.
C27_IntradayTargetAboveResistance ==
    /\ resistanceAboveEntry
    /\ input.fn = "calculateIntradayEntryPrice"
    /\ input.resistance = input.price + input.price \div 1000
    /\ output.target1 > input.resistance

(***************************************************************************)
(* Properties of the intraday background scan (SpecCache)                  *)
(***************************************************************************)
\* At most one scan is in flight, the status is 'running' exactly while one
\* is, and once a scan was started and none is in flight the status is 'done'
\* or 'error'.
oneScanInFlight ==
    /\ scansInFlight <= 1
    /\ scanStatus = "running" <=> scansInFlight = 1
    /\ (scansInFlight = 0 /\ scanCount > 0) => scanStatus \in {"done", "error"}
    /\ scanCount = 0 => scanStatus = "idle"

\* A POST /start that finds the status 'running' changes neither the scan in
\* flight nor the cache nor the store; a scan that ends leaves the status
\* 'done' or 'error'.
startWhileRunningIsIgnored ==
    /\ (scanStatus = "running" /\ output' # output)
         => UNCHANGED <<scanVars, storeVars, saveVars>>
    /\ scansInFlight' < scansInFlight => scanStatus' \in {"done", "error"}

\* C28: at most one intraday background scan is in flight at any time; a
\* POST /start while the status is 'running' starts no second scan and does
\* not reset the cached results; the status is 'running' exactly while a scan
\* is in flight and becomes 'done' or 'error' when that scan ends.
C28_OneScanInFlight ==
    []oneScanInFlight /\ [][startWhileRunningIsIgnored]_vars

\* A second scan is in flight, the results of the first are still cached, and
\* a POST /start found the status 'running'.
C28_StartedWhileRunning ==
    /\ scanCount = 2
    /\ scansInFlight = 1
    /\ intradayCache.results # <<>>
    /\ output.returned
    /\ output.status = "scan_started"
    /\ output.found = "running"
    /\ \E k \in 1..Len(slots) : slots[k].state = "fetching"

\* A scan ended with the status 'error'.
C28_ScanEndedInError ==
    /\ scanStatus = "error"
    /\ intradayCache.error
    /\ scansInFlight = 0

(***************************************************************************)
(* Properties of an accepted snapshot (SpecSnap)                           *)
(***************************************************************************)
\* The last call accepted its snapshot: it returned the snapshot it built.
SnapshotAccepted == Saved /\ lastSave.returned = lastSave.offered

\* The snapshots of other dates the last call removed from the store
droppedByLastSave ==
    {lastSave.before[k] : k \in 1..Len(lastSave.before)}
        \ {ActiveSnapshots[k] : k \in 1..Len(ActiveSnapshots)}

\* Everything the last call dropped is older than everything it kept.
droppedAreOldest ==
    \A d \in droppedByLastSave : d.istDate # lastSave.offered.istDate =>
        \A k \in 1..Len(ActiveSnapshots) : d.createdAt < ActiveSnapshots[k].createdAt

\* C29 as stated: an accepted snapshot S is what
\* listIntradaySignalSnapshots({date: S.istDate}) returns afterwards, also when
\* the file history is full, and what the retention limit drops is older than
\* what it keeps.
C29_Original ==
    SnapshotAccepted =>
        /\ listIntradaySignalSnapshots(lastSave.offered.istDate) = <<lastSave.offered>>
        /\ droppedAreOldest

\* The stored dates before the last call, the call's own date left out
otherDatesBefore ==
    {lastSave.before[k].istDate : k \in 1..Len(lastSave.before)}
        \ {lastSave.offered.istDate}

\* C29 where it holds: in Mongo, and in the file while the snapshots of other
\* dates are fewer than the limit; nothing is dropped then.
C29_AcceptedKeptBelowLimit ==
    (SnapshotAccepted /\ (lastSave.storage = "mongo"
                          \/ Cardinality(otherDatesBefore) < SIGNAL_HISTORY_LIMIT)) =>
        /\ listIntradaySignalSnapshots(lastSave.offered.istDate) = <<lastSave.offered>>
        /\ droppedByLastSave \subseteq
             {d \in droppedByLastSave : d.istDate = lastSave.offered.istDate}

\* A full file history: the accepted snapshot of a new date is not stored and
\* the older snapshots all stay.
C29_AcceptedSnapshotDropped ==
    /\ SnapshotAccepted
    /\ lastSave.storage = "file"
    /\ Cardinality(otherDatesBefore) = SIGNAL_HISTORY_LIMIT
    /\ listIntradaySignalSnapshots(lastSave.offered.istDate) = <<>>
    /\ fileSnapshots = lastSave.before

\* An accepted snapshot of a second date, stored next to the first.
C29_AcceptedSnapshotStored ==
    /\ SnapshotAccepted
    /\ lastSave.storage = "file"
    /\ Cardinality(otherDatesBefore) = 1
    /\ listIntradaySignalSnapshots(lastSave.offered.istDate) = <<lastSave.offered>>
    /\ Len(fileSnapshots) = 2

(***************************************************************************)
(* Properties of two concurrent saves to the file (SpecRace)               *)
(***************************************************************************)
bothSaved == \A i \in Savers : savers[i].pc = "done"

onePerDate(snapshots) ==
    \A date \in IstDates : Len(sameDate(snapshots, date)) <= 1

\* A date both calls saved keeps a snapshot of the higher of their qualities.
bestOfBothKept ==
    savers[1].snapshot.istDate = savers[2].snapshot.istDate =>
        \E k \in 1..Len(fileSnapshots) :
            /\ fileSnapshots[k].istDate = savers[1].snapshot.istDate
            /\ snapshotQuality(fileSnapshots[k]) >= snapshotQuality(savers[1].snapshot)
            /\ snapshotQuality(fileSnapshots[k]) >= snapshotQuality(savers[2].snapshot)

\* A snapshot one call accepted for a date the other did not save is stored.
otherDateNotLost ==
    \A i \in Savers :
        (/\ savers[1].snapshot.istDate # savers[2].snapshot.istDate
         /\ savers[i].returned = savers[i].snapshot)
            => inSeq(savers[i].snapshot, fileSnapshots)

\* C30 as stated: after two calls whose reads and writes may interleave, the
\* file holds one snapshot per istDate, a date saved by both keeps the
\* higher-quality snapshot, and a snapshot accepted for another date is not
\* lost by the other call's write.
C30_Original ==
    bothSaved => (onePerDate(fileSnapshots) /\ bestOfBothKept /\ otherDateNotLost)

\* C30 where it holds: each call wrote from the file as it was, the other's
\* write not in between.
C30_HoldsWithoutInterleaving ==
    /\ onePerDate(fileSnapshots)
    /\ (bothSaved /\ \A i \in Savers : ~savers[i].stale)
         => (bestOfBothKept /\ otherDateNotLost)

\* Both calls read the empty file and were accepted for different dates: the
\* file holds only one of the two snapshots.
C30_AcceptedSnapshotLost ==
    /\ bothSaved
    /\ \A i \in Savers : savers[i].returned = savers[i].snapshot
    /\ savers[1].snapshot.istDate # savers[2].snapshot.istDate
    /\ savers[1].history = <<>>
    /\ savers[2].history = <<>>
    /\ fileSnapshots = <<savers[2].snapshot>>

\* Both calls saved the same date from the same read and the file keeps the
\* lower-quality snapshot.
C30_LowerQualityKept ==
    /\ bothSaved
    /\ savers[1].snapshot.istDate = savers[2].snapshot.istDate
    /\ savers[1].history = savers[2].history
    /\ snapshotQuality(savers[1].snapshot) > snapshotQuality(savers[2].snapshot)
    /\ fileSnapshots = <<savers[2].snapshot>>

\* One call after the other for two dates: both snapshots are stored.
C30_SerialSavesBothStored ==
    /\ bothSaved
    /\ \A i \in Savers : ~savers[i].stale /\ savers[i].returned = savers[i].snapshot
    /\ savers[1].snapshot.istDate # savers[2].snapshot.istDate
    /\ Len(fileSnapshots) = 2

=========================================================================
